---- MODULE Spec2Model ----
(***************************************************************************)
(* Streaming pipeline of yamusic: the PCM decode pipeline of               *)
(* src/stream/pcm.rs (controller, decode thread, sample consumer) and the  *)
(* streaming reader of src/stream/data_source.rs over the buffer window of *)
(* src/stream/buffer.rs (reader thread, fetch worker).                     *)
(*                                                                         *)
(* Every atomic step is one access to shared state: one atomic load or     *)
(* fetch_add, one channel operation, or one critical section of the        *)
(* buffer lock.  Thread-local work is folded into the step that follows.   *)
(***************************************************************************)
EXTENDS Integers, Sequences, FiniteSets, TLC

\* ------------------------------------------------------------------ bounds
\* Number of controller seeks (values of the decode generation) explored.
MaxGen == 2
\* Number of samples the modelled track decodes to.
TrackLen == 3

\* ------------------------------------------------- program constants (pcm)
\* pcm.rs:20, 8192 in the source, scaled so a track spans several chunks.
PCM_CHUNK_SAMPLES == 2
\* pcm.rs:21, 32 in the source, scaled so the channel fills.
SAMPLE_CHANNEL_CAPACITY == 2

\* ------------------------------------------ program constants (data source)
\* data_source.rs:15, 256 KiB in the source; 3 lets two reads in a row leave
\* the cursor short of the window's end, as reads of a few KiB do there.
PREFETCH_SIZE == 3
\* data_source.rs:16, 64 KiB in the source (a quarter of PREFETCH_SIZE there).
MIN_INITIAL_DATA == 2
\* data_source.rs:17, 100 in the source.
MAX_ATTEMPTS == 2
\* buffer.rs:3, 16 MiB in the source (64 times PREFETCH_SIZE there).
BUFFER_SIZE == 8
\* buffer.rs:4, 256 KiB in the source (equal to PREFETCH_SIZE).
PREFETCH_TRIGGER == 3
\* data_source.rs:282, the width of the i64 offset of SeekFrom::End and
\* SeekFrom::Current, 64 in the source; 5 bits hold -16 .. 15, beyond the
\* resource's length on either side.
OffsetBits == 5

\* ------------------------------------------------------------------ bounds
\* content-length of the remote resource: longer than the window's ring, so
\* that streaming through it wraps the ring.
TotalBytes == 10
\* The length of a resource shorter than MIN_INITIAL_DATA.
ShortTotal == 1
\* Values of the reader's fetch generation explored.
MaxFetchGen == 1
\* Fetch commands and completion notifications in the channels when a
\* read or seek call begins.
MaxInFlight == 2
\* Longest destination buffer handed to read.
MaxReadLen == 2
\* Largest offset a window is cleared to or rebased to by a direct call.
MaxOffset == 3
\* Most reset() calls on the TrackProgress of a session.
MaxResets == 1
\* Most play_track calls on the AudioController.
MaxCalls == 3
\* Most read and seek calls of the reader while the lock is followed.
MaxLockCalls == 2

VARIABLES
    \* ---- pcm.rs: shared between controller, decode thread and consumer
    generation,          \* Arc<AtomicU64> of the session
    seeking,             \* StreamController::seek calls between fetch_add and send
    cmd_q,               \* flume::unbounded DecoderCommand channel
    sample_q,            \* crossbeam bounded SampleMessage channel
    stop_called,         \* StreamController::stop has returned
    rx_dropped,          \* the BufferedStreamingSource was dropped
    \* ---- pcm.rs: run_decode_loop locals
    dpc,                 \* "drain" | "set_position" | "send_samples" | "send_finished" | "exited"
    active_generation,
    chunk,
    dec_pos,             \* index of the next sample the decoder yields
    decode_error,        \* history: decoder.next() ended on a read or decode error
    decoder_seeks,       \* history: the positions handed to decoder.try_seek, in order
    expect,              \* history: where the decoder would be had every try_seek succeeded
    \* ---- pcm.rs: BufferedStreamingSource fields and next() locals
    cpc,                 \* "idle" | "loaded" | "recv"
    current_generation,
    pending_samples,
    sample_pos,
    pending_generation,
    finished_generation, \* Option<u64>: <<>> is None, <<g>> is Some(g)
    chunk_tag,           \* history: the tag of the chunk pending_samples came from
    call_after_stop,     \* history: stop() had returned when this next() call began
    owed,                \* history: per tag, samples sent in chunks and not yet returned
    ret,                 \* what the last next() call returned
    \* ---- pcm.rs: create_streaming_session
    session,             \* "new" | "failed" | "started": whether the decode thread was spawned
    \* ---- data_source.rs: StreamingDataSource, shared with the fetch worker
    total_bytes,         \* the content-length the probe reported
    buffer,              \* Arc<Mutex<BufferState>>
    fetch_generation,    \* StreamingDataSource::generation
    fetch_q,             \* fetch_tx / rx_cmd: flume::unbounded FetchCommand
    res_q,               \* tx_res / fetch_rx: number of queued completions
    poisoned,            \* the buffer Mutex is poisoned: a thread panicked holding it
    \* ---- data_source.rs: the reader thread (new, read, seek and callees)
    position,
    rpc,                 \* where the reader thread is
    call,                \* locals of the running call
    rret,                \* what the last call returned
    \* ---- data_source.rs: fetch_loop_blocking locals
    wpc,                 \* "unspawned" | "recv" | "http" | "append" | "notify" | "exited" | "panicked"
    wcmd,                \* the Fetch command being executed
    wdata,               \* the response body
    wres,                \* history: how the last request ended
    unnotified,          \* history: Fetch commands dequeued minus completions sent
    failed_at,           \* history: Option, the start of the last request that failed
    server_exact,        \* history: every body so far was exactly the range asked for
    \* ---- buffer.rs: a BufferState driven directly through its methods
    win,                 \* the BufferState
    bop,                 \* the last method call on it: arguments and result
    \* ---- progress.rs: the TrackProgress the session was created with
    track_generation,    \* TrackProgress::generation
    current_position,    \* TrackProgress::current_position_millis, as a seek position
    resetting,           \* a reset() call is between its fetch_add and its stores
    \* ---- controller.rs: AudioController and the start tasks it spawns
    playback_state,      \* PlaybackState behind the RwLock
    sink,                \* the rodio Sink: the calls whose session source is queued in it
    current_playback_task, \* Option<JoinHandle>: the call whose task is stored
    task,                \* per play_track call: its track and where its start task is
    apc,                 \* where the running command of the controller is
    calls,               \* how many play_track calls have begun
    superseded,          \* history: calls whose task a later stop() has finished replacing
    \* ---- data_source.rs: the buffer Mutex and who holds it, step by step
    buffer_lock,         \* "free" | "reader" | "worker": the holder of the MutexGuard
    lock_poisoned,       \* a thread panicked while it held the guard
    rl,                  \* the reader thread: where it is, and for whom ensure/wait_for run
    wl,                  \* the fetch worker: where it is
    lk_cmds,             \* the command channel: "Fetch" and "Shutdown" in order
    lk_res,              \* the completion channel: how many () are queued
    lk_calls             \* how many read/seek calls the reader has begun

pcm_vars == <<generation, seeking, cmd_q, sample_q, stop_called, rx_dropped,
              dpc, active_generation, chunk, dec_pos, decode_error,
              decoder_seeks, expect,
              cpc, current_generation, pending_samples, sample_pos,
              pending_generation, finished_generation, chunk_tag,
              call_after_stop, owed, ret>>

ds_vars == <<session, total_bytes, buffer, fetch_generation, fetch_q, res_q, poisoned,
            position, rpc, call, rret, wpc, wcmd, wdata, wres, unnotified, failed_at,
            server_exact>>

buf_vars == <<win, bop>>

progress_vars == <<track_generation, current_position, resetting>>

play_vars == <<playback_state, sink, current_playback_task, task, apc, calls, superseded>>

lock_vars == <<buffer_lock, lock_poisoned, rl, wl, lk_cmds, lk_res, lk_calls>>

vars == <<pcm_vars, ds_vars, buf_vars, progress_vars, play_vars, lock_vars>>

None == <<>>
Some(x) == <<x>>

Min(a, b) == IF a <= b THEN a ELSE b
Max(a, b) == IF a >= b THEN a ELSE b

\* ===================================================================== pcm

\* The external decoder: the sample at index i of the track.  Never 0, the
\* value of a silence sample.
Sample(i) == i + 1

\* for _ in 0..PCM_CHUNK_SAMPLES { decoder.next() }
DecodeChunk(pos) ==
    [i \in 1..Min(PCM_CHUNK_SAMPLES, TrackLen - pos) |-> Sample(pos + i - 1)]

SeekCmd(p, g) == [type |-> "Seek", position |-> p, generation |-> g]
StopCmd == [type |-> "Stop", position |-> 0, generation |-> 0]
SamplesMsg(c, g) == [type |-> "Samples", chunk |-> c, generation |-> g]
FinishedMsg(g) == [type |-> "Finished", chunk |-> <<>>, generation |-> g]

\* The decode thread has left run_decode_loop: sample_tx and cmd_rx are dropped.
DecodeExited == dpc = "exited"

PcmInit ==
    /\ generation = 0
    /\ seeking = {}
    /\ cmd_q = <<>>
    /\ sample_q = <<>>
    /\ stop_called = FALSE
    /\ rx_dropped = FALSE
    /\ dpc = "drain"
    /\ active_generation = 0
    /\ chunk = <<>>
    /\ dec_pos = 0
    /\ decode_error = FALSE
    /\ decoder_seeks = <<>>
    /\ expect = 0
    /\ cpc = "idle"
    /\ current_generation = 0
    /\ pending_samples = <<>>
    /\ sample_pos = 0
    /\ pending_generation = 0
    /\ finished_generation = None
    /\ chunk_tag = 0
    /\ call_after_stop = FALSE
    /\ owed = [g \in 0..MaxGen |-> 0]
    /\ ret = [kind |-> "start", tag |-> 0, cur |-> 0, value |-> 0, after_stop |-> FALSE]

decode_vars == <<dpc, active_generation, chunk, dec_pos, decode_error,
                 decoder_seeks, expect>>
consumer_vars == <<cpc, current_generation, pending_samples, sample_pos,
                   pending_generation, finished_generation, chunk_tag,
                   call_after_stop, owed, ret>>

\* ---------------------------------------------------------- StreamController

\* The command is tagged with the generation before the increment.
SeekTagsOld(g) == g

\* The generation StreamController::seek tags its command with.
SeekGeneration(g) == g + 1

\* StreamController::seek, first half: generation.fetch_add(1) + 1.
ControllerSeekBegin(p) ==
    /\ generation < MaxGen
    /\ generation' = generation + 1
    /\ seeking' = seeking \cup {[position |-> p, generation |-> SeekGeneration(generation),
                                 by |-> "controller"]}
    /\ UNCHANGED <<lock_vars, ds_vars, buf_vars, progress_vars, play_vars, cmd_q, sample_q, stop_called, rx_dropped, decode_vars, consumer_vars>>

\* StreamController::seek, second half: cmd_tx.send(Seek).  A send to a
\* channel whose receiver is gone fails and is ignored.
ControllerSeekSend(s) ==
    /\ s \in seeking
    /\ seeking' = seeking \ {s}
    /\ cmd_q' = IF DecodeExited THEN cmd_q
                ELSE Append(cmd_q, SeekCmd(s.position, s.generation))
    /\ UNCHANGED <<lock_vars, ds_vars, buf_vars, progress_vars, play_vars, generation, sample_q, stop_called, rx_dropped, decode_vars, consumer_vars>>

\* What StreamController::stop does to the shared generation: nothing.
StopGeneration(g) == g

\* StreamController::stop.
ControllerStop ==
    /\ ~stop_called
    /\ stop_called' = TRUE
    /\ generation' = StopGeneration(generation)
    /\ cmd_q' = IF DecodeExited THEN cmd_q ELSE Append(cmd_q, StopCmd)
    /\ UNCHANGED <<lock_vars, ds_vars, buf_vars, progress_vars, play_vars, seeking, sample_q, rx_dropped, decode_vars, consumer_vars>>

\* ------------------------------------------------------------ run_decode_loop

\* The generation the thread adopts when it handles Seek{generation}.
AdoptGeneration(g) == g

\* The thread goes on draining after a Stop command.
StopIgnored == "drain"

\* DecoderCommand::Stop => { stopped = true; break; } and then
\* if stopped { break; }: the thread leaves the loop.
AfterStop == "exited"

\* let progress_generation = progress.get_generation() in
\* create_streaming_session: the generation of the TrackProgress when the
\* session is created.
progress_generation == 0

\* while let Ok(cmd) = cmd_rx.try_recv(): one command.  The decoder's own
\* try_seek may fail; its result is ignored.  For a Seek the thread then
\* loads the generation of the TrackProgress, and goes on to store the
\* position if it equals the one the session was created under.
DecodeDrainCommand ==
    /\ dpc = "drain"
    /\ cmd_q # <<>>
    /\ LET cmd == Head(cmd_q) IN
       /\ cmd_q' = Tail(cmd_q)
       /\ IF cmd.type = "Seek"
          THEN /\ \E ok \in BOOLEAN :
                    dec_pos' = IF ok THEN cmd.position ELSE dec_pos
               /\ decoder_seeks' = Append(decoder_seeks, cmd.position)
               /\ expect' = cmd.position
               /\ active_generation' = AdoptGeneration(cmd.generation)
               /\ dpc' = IF progress_generation = track_generation
                         THEN "set_position" ELSE "drain"
          ELSE /\ dpc' = AfterStop
               /\ UNCHANGED <<dec_pos, active_generation, decoder_seeks, expect>>
    /\ UNCHANGED <<lock_vars, ds_vars, buf_vars, progress_vars, play_vars, generation, seeking, sample_q, stop_called, rx_dropped, chunk,
                   decode_error, consumer_vars>>

\* progress.set_current_position(position), after the comparison of the
\* generations came out equal.
DecodeSetPosition ==
    /\ dpc = "set_position"
    /\ current_position' = decoder_seeks[Len(decoder_seeks)]
    /\ dpc' = "drain"
    /\ UNCHANGED <<lock_vars, ds_vars, buf_vars, play_vars, track_generation, resetting,
                   generation, seeking, cmd_q, sample_q, stop_called, rx_dropped,
                   active_generation, chunk, dec_pos, decode_error, decoder_seeks,
                   expect, consumer_vars>>

\* What decoder.next() yields when the reader returns an error (ensure
\* timed out) or the data does not decode: Option<f32> has no error case,
\* the iterator ends.
DecodeOnError == <<>>

\* try_recv finds the command channel empty: decode the next chunk.  Before
\* the end of the track the decoder may fail instead.
DecodeChunkStep ==
    /\ dpc = "drain"
    /\ cmd_q = <<>>
    /\ \E err \in {FALSE, dec_pos < TrackLen} :
          /\ chunk' = IF err THEN DecodeOnError ELSE DecodeChunk(dec_pos)
          /\ decode_error' = (decode_error \/ err)
    /\ dec_pos' = dec_pos + Len(chunk')
    /\ expect' = expect + Len(chunk')
    /\ dpc' = IF chunk' = <<>> THEN "send_finished" ELSE "send_samples"
    /\ UNCHANGED <<lock_vars, ds_vars, buf_vars, progress_vars, play_vars, generation, seeking, cmd_q, sample_q, stop_called, rx_dropped,
                   active_generation, decoder_seeks, consumer_vars>>

\* The sample channel is never full: send never blocks.
ChannelNeverFull(q) == FALSE

\* cb_bounded::<SampleMessage>(SAMPLE_CHANNEL_CAPACITY): send blocks while
\* the channel holds that many messages.
ChannelFull(q) == Len(q) >= SAMPLE_CHANNEL_CAPACITY

\* Whether the decode thread goes on after a Samples message was sent.
AfterSamplesSent == "drain"

\* sample_tx.send(Samples(chunk, active_generation)): blocks while the
\* channel is full, fails once the receiver is dropped.
DecodeSendSamples ==
    /\ dpc = "send_samples"
    /\ IF rx_dropped
       THEN /\ dpc' = "exited"
            /\ UNCHANGED <<sample_q, owed>>
       ELSE /\ ~ChannelFull(sample_q)
            /\ sample_q' = Append(sample_q, SamplesMsg(chunk, active_generation))
            /\ owed' = [owed EXCEPT ![active_generation] = @ + Len(chunk)]
            /\ dpc' = AfterSamplesSent
    /\ chunk' = <<>>
    /\ UNCHANGED <<lock_vars, ds_vars, buf_vars, progress_vars, play_vars, generation, seeking, cmd_q, stop_called, rx_dropped,
                   active_generation, dec_pos, decode_error, decoder_seeks, expect,
                   cpc, current_generation, pending_samples, sample_pos,
                   pending_generation, finished_generation, chunk_tag,
                   call_after_stop, ret>>

\* Whether the decode thread goes on after Finished was sent: it leaves the loop.
AfterFinishedSent == "exited"

\* let _ = sample_tx.send(Finished(active_generation)); break;
DecodeSendFinished ==
    /\ dpc = "send_finished"
    /\ IF rx_dropped
       THEN /\ dpc' = "exited"
            /\ UNCHANGED sample_q
       ELSE /\ ~ChannelFull(sample_q)
            /\ sample_q' = Append(sample_q, FinishedMsg(active_generation))
            /\ dpc' = AfterFinishedSent
    /\ UNCHANGED <<lock_vars, ds_vars, buf_vars, progress_vars, play_vars, generation, seeking, cmd_q, stop_called, rx_dropped,
                   active_generation, chunk, dec_pos, decode_error, decoder_seeks, expect,
                   consumer_vars>>

DecodeThread ==
    \/ DecodeDrainCommand
    \/ DecodeSetPosition
    \/ DecodeChunkStep
    \/ DecodeSendSamples
    \/ DecodeSendFinished

\* ------------------------------------------------- BufferedStreamingSource

Returned(kind, tag, value) ==
    [kind |-> kind, tag |-> tag, cur |-> current_generation, value |-> value,
     after_stop |-> call_after_stop]

\* next(): let current_generation = self.generation.load(Acquire).
NextLoad ==
    /\ cpc = "idle"
    /\ ~rx_dropped
    /\ \A s \in seeking : s.by # "consumer"
    /\ current_generation' = generation
    /\ cpc' = "loaded"
    /\ call_after_stop' = stop_called
    /\ UNCHANGED <<lock_vars, ds_vars, buf_vars, progress_vars, play_vars, generation, seeking, cmd_q, sample_q, stop_called, rx_dropped, decode_vars,
                   pending_samples, sample_pos, pending_generation,
                   finished_generation, chunk_tag, owed, ret>>

\* The buffered chunk is kept across a generation change.
GenerationChangeMissed(pending, current) == FALSE

\* if self.pending_generation != current_generation { ... }: whether the
\* buffered chunk is dropped.
GenerationChanged(pending, current) == pending # current

\* The buffered sample is handed out again by the next call.
SamplePosStuck(pos) == pos

\* self.sample_pos += 1 after a buffered sample was taken.
AdvanceSamplePos(pos) == pos + 1

\* next(): the reset on a generation change, then the buffered sample if any.
NextBuffered ==
    /\ cpc = "loaded"
    /\ LET changed == GenerationChanged(pending_generation, current_generation)
           samples == IF changed THEN <<>> ELSE pending_samples
           pos     == IF changed THEN 0 ELSE sample_pos
           fin     == IF changed THEN None ELSE finished_generation
       IN
       /\ pending_generation' = IF changed THEN current_generation ELSE pending_generation
       /\ pending_samples' = samples
       /\ finished_generation' = fin
       /\ IF pos < Len(samples)
          THEN /\ sample_pos' = AdvanceSamplePos(pos)
               /\ ret' = Returned("chunk", chunk_tag, samples[pos + 1])
               /\ owed' = [owed EXCEPT ![chunk_tag] = @ - 1]
               /\ cpc' = "idle"
          ELSE /\ sample_pos' = pos
               /\ ret' = ret
               /\ owed' = owed
               /\ cpc' = "recv"
    /\ UNCHANGED <<lock_vars, ds_vars, buf_vars, progress_vars, play_vars, generation, seeking, cmd_q, sample_q, stop_called, rx_dropped, decode_vars,
                   current_generation, chunk_tag, call_after_stop>>

\* if packet_generation != current_generation { continue; }: whether a
\* received message is accepted.
AcceptPacket(packet_generation, current) == packet_generation = current

\* An empty channel always ends the stream.
EmptyEndsStream(finished, current) == "end"

\* Err(TryRecvError::Empty): None once Finished was received for the
\* current generation, otherwise one silence sample Some(0.0).
OnEmpty(finished, current) ==
    IF finished = Some(current) THEN "end" ELSE "silence"

\* next(): one self.rx.try_recv() of the loop.  try_recv never blocks: it
\* yields a message, Empty, or Disconnected when the channel is empty and
\* the decode thread has dropped sample_tx.
NextRecv ==
    /\ cpc = "recv"
    /\ IF sample_q # <<>>
       THEN LET msg == Head(sample_q) IN
            /\ sample_q' = Tail(sample_q)
            /\ IF ~AcceptPacket(msg.generation, current_generation)
               THEN /\ cpc' = "recv"
                    /\ UNCHANGED <<pending_samples, sample_pos, finished_generation,
                                   chunk_tag, owed, ret>>
               ELSE IF msg.type = "Samples"
               THEN /\ pending_samples' = msg.chunk
                    /\ chunk_tag' = msg.generation
                    /\ finished_generation' = finished_generation
                    /\ IF 0 < Len(msg.chunk)
                       THEN /\ sample_pos' = 1
                            /\ ret' = Returned("chunk", msg.generation, msg.chunk[1])
                            /\ owed' = [owed EXCEPT ![msg.generation] = @ - 1]
                            /\ cpc' = "idle"
                       ELSE /\ sample_pos' = 0
                            /\ ret' = ret
                            /\ owed' = owed
                            /\ cpc' = "recv"
               ELSE /\ finished_generation' = Some(msg.generation)
                    /\ UNCHANGED <<pending_samples, sample_pos, chunk_tag, owed>>
                    /\ IF sample_pos >= Len(pending_samples)
                       THEN /\ ret' = Returned("end", msg.generation, 0)
                            /\ cpc' = "idle"
                       ELSE /\ ret' = ret
                            /\ cpc' = "recv"
       ELSE /\ sample_q' = sample_q
            /\ cpc' = "idle"
            /\ UNCHANGED <<pending_samples, sample_pos, finished_generation, chunk_tag, owed>>
            /\ IF DecodeExited
               THEN ret' = Returned("disconnected", current_generation, 0)
               ELSE ret' = Returned(OnEmpty(finished_generation, current_generation),
                                    current_generation, 0)
    /\ UNCHANGED <<lock_vars, ds_vars, buf_vars, progress_vars, play_vars, generation, seeking, cmd_q, stop_called, rx_dropped, decode_vars,
                   current_generation, pending_generation, call_after_stop>>

ConsumerNext == NextLoad \/ NextBuffered \/ NextRecv

\* Source::try_seek: clears the local buffering state, then
\* self.controller.seek(pos), whose send is ControllerSeekSend.
TrySeek(p) ==
    /\ cpc = "idle"
    /\ ~rx_dropped
    /\ \A s \in seeking : s.by # "consumer"
    /\ generation < MaxGen
    /\ pending_samples' = <<>>
    /\ sample_pos' = 0
    /\ finished_generation' = None
    /\ generation' = generation + 1
    /\ seeking' = seeking \cup {[position |-> p, generation |-> SeekGeneration(generation),
                                 by |-> "consumer"]}
    /\ UNCHANGED <<lock_vars, ds_vars, buf_vars, progress_vars, play_vars, cmd_q, sample_q, stop_called, rx_dropped, decode_vars,
                   cpc, current_generation, pending_generation, chunk_tag,
                   call_after_stop, owed, ret>>

\* The sink drops the source (between two next() calls).
ConsumerDrop ==
    /\ cpc = "idle"
    /\ ~rx_dropped
    /\ \A s \in seeking : s.by # "consumer"
    /\ rx_dropped' = TRUE
    /\ sample_q' = <<>>
    /\ UNCHANGED <<lock_vars, ds_vars, buf_vars, progress_vars, play_vars, generation, seeking, cmd_q, stop_called, decode_vars, consumer_vars>>

\* ============================================================ buffer window
\* BufferState of buffer.rs as a record [data, head, start_pos, eof,
\* pending, total_bytes].  data is the VecDeque's content in
\* logical order and head the physical index of its first element in the
\* ring.  max_buffered_from_start and buffering_base are left out: nothing
\* outside buffer.rs reads them and no operation below depends on them.

\* The byte of the remote resource at an absolute offset.
Byte(i) == 10 + i

\* VecDeque::with_capacity(BUFFER_SIZE): the ring never grows, since append
\* keeps len(data) <= BUFFER_SIZE.
Capacity == BUFFER_SIZE

\* BufferState::new
NewBuffer(total) ==
    [data |-> <<>>, head |-> 0, start_pos |-> 0, eof |-> FALSE, pending |-> None,
     total_bytes |-> total]

\* self.data.drain(..n): the head moves on by n around the ring; a deque
\* drained to empty starts again at physical index 0.
DrainFront(b, n) ==
    [b EXCEPT !.data = SubSeq(b.data, n + 1, Len(b.data)),
              !.head = IF n >= Len(b.data) THEN 0 ELSE (b.head + n) % Capacity]

\* self.data.as_slices(): the part up to the physical end of the ring ...
FrontSlice(b) == SubSeq(b.data, 1, Min(Len(b.data), Capacity - b.head))

\* ... and the part that wrapped around to its beginning.
BackSlice(b) == SubSeq(b.data, Len(FrontSlice(b)) + 1, Len(b.data))

\* BufferState::end_pos
EndPos(b) == b.start_pos + Len(b.data)

\* BufferState::contains
Contains(b, pos) == pos >= b.start_pos /\ pos < b.start_pos + Len(b.data)

\* BufferState::available_from
AvailableFrom(b, pos) ==
    IF ~Contains(b, pos) THEN 0 ELSE Len(b.data) - (pos - b.start_pos)

\* BufferState::read_at, for pos >= start_pos: the bytes copied into buf.
ReadAt(b, pos, buflen) ==
    LET len == Min(buflen, AvailableFrom(b, pos))
        off == pos - b.start_pos
        s1  == FrontSlice(b)
        s2  == BackSlice(b)
    IN  IF off + len <= Len(s1)
        THEN SubSeq(s1, off + 1, off + len)
        ELSE LET a    == IF off < Len(s1) THEN SubSeq(s1, off + 1, Len(s1)) ELSE <<>>
                 need == len - Len(a)
             IN  a \o SubSeq(s2, 1, need)

\* read_at computes (pos - self.start_pos) as usize before it looks at the
\* length: below the window the subtraction overflows.
ReadAtOverflows(b, pos) == pos < b.start_pos

\* append: the overflow drained from the front before the new bytes go in.
Overflow(b, new) == Max(0, (Len(b.data) + Len(new)) - BUFFER_SIZE)

\* A non-adjacent start is taken for an adjacent one.
RebaseMissed(b, start) == FALSE

\* append: whether a non-adjacent start discards the window.
Rebase(b, start) == b.data # <<>> /\ start # b.start_pos + Len(b.data)

\* The end of the resource is taken to lie one byte further.
ReachesEndStrict(b, start, n) == start + n > b.total_bytes

\* append: if start + new.len() as u64 >= self.total_bytes { self.eof = true }
ReachesEnd(b, start, n) == start + n >= b.total_bytes

\* BufferState::append: [ok, b], the returned flag and the buffer afterwards.
AppendBytes(b, new, start) ==
    IF new = <<>> THEN [ok |-> FALSE, b |-> b]
    ELSE
    LET b1 == IF b.pending # None /\ start >= b.pending[1][1] /\ start < b.pending[1][2]
              THEN [b EXCEPT !.pending = None] ELSE b
    IN
    IF start < b1.start_pos THEN [ok |-> FALSE, b |-> b1]
    ELSE IF b1.data = <<>> /\ start # b1.start_pos THEN [ok |-> FALSE, b |-> b1]
    ELSE
    LET b2 == IF Rebase(b1, start)
              THEN [b1 EXCEPT !.data = <<>>, !.head = 0, !.start_pos = start, !.eof = FALSE]
              ELSE b1
        overflow == Overflow(b2, new)
        b3 == IF overflow > 0
              THEN [DrainFront(b2, overflow) EXCEPT !.start_pos = b2.start_pos + overflow]
              ELSE b2
        b4 == IF ReachesEnd(b3, start, Len(new)) THEN [b3 EXCEPT !.eof = TRUE] ELSE b3
    IN  [ok |-> TRUE, b |-> [b4 EXCEPT !.data = b4.data \o new]]

\* append: self.data.drain(..overflow) panics when overflow > len(data).
AppendPanics(b, new, start) ==
    /\ new # <<>>
    /\ start >= b.start_pos
    /\ ~(b.data = <<>> /\ start # b.start_pos)
    /\ Overflow(IF Rebase(b, start) THEN [b EXCEPT !.data = <<>>] ELSE b, new)
         > Len(IF Rebase(b, start) THEN <<>> ELSE b.data)

\* BufferState::clear
Clear(b, start) ==
    [b EXCEPT !.data = <<>>, !.head = 0, !.start_pos = start, !.eof = FALSE, !.pending = None]

\* Nothing is evicted.
DiscardNothing(b, pos) == b

\* BufferState::discard_before
DiscardBefore(b, pos) ==
    IF pos <= b.start_pos THEN b
    ELSE LET drop == Min(pos - b.start_pos, Len(b.data)) IN
         IF drop = 0 THEN b
         ELSE [DrainFront(b, drop) EXCEPT !.start_pos = b.start_pos + drop]

\* A marked fetch does not hold back the next one.
PrefetchIgnoresPending(b, pos) == ~b.eof /\ AvailableFrom(b, pos) < PREFETCH_TRIGGER

\* BufferState::should_prefetch
ShouldPrefetch(b, pos) ==
    ~b.eof /\ b.pending = None /\ AvailableFrom(b, pos) < PREFETCH_TRIGGER

\* BufferState::mark_pending
MarkPending(b, start, end) == [b EXCEPT !.pending = Some(<<start, end>>)]

\* The marker is left as it is.
PendingKept(b) == b

\* BufferState::clear_pending
ClearPending(b) == [b EXCEPT !.pending = None]

\* ------------------------------------------- the window through its methods
\* One BufferState on which append, clear, discard_before, read_at and
\* should_prefetch are called in any order with any arguments within the
\* bounds.  No fetch is pending on it: mark_pending and clear_pending are
\* the fetch worker's, in the data source below.

\* The bytes a caller appends for the absolute offsets start .. start+n-1.
AppendInput(start, n) == [k \in 1..n |-> Byte(start + k - 1)]

\* The record of a call: its arguments (pos, len), how it ended (kind), what
\* it returned (ok, out) and, for an append, how start lay to the window it
\* met (adjacent: at its end_pos; below: before its start_pos) and whether
\* start_pos went back.
NoOp == [op |-> "new", kind |-> "ok", pos |-> 0, len |-> 0, ok |-> FALSE, out |-> <<>>,
         adjacent |-> FALSE, below |-> FALSE, back |-> FALSE]

BufInit ==
    /\ win = NewBuffer(TotalBytes)
    /\ bop = NoOp

\* A panic inside a method ends the thread that holds the window.
BufAlive == bop.kind # "panic"

\* append(new, start) with new the n bytes for start .. start+n-1
BufAppend(start, n) ==
    /\ BufAlive
    /\ LET new == AppendInput(start, n)
           rec == [NoOp EXCEPT !.op = "append", !.pos = start, !.len = n,
                               !.adjacent = (start = EndPos(win)),
                               !.below = (start < win.start_pos)]
       IN
       IF AppendPanics(win, new, start)
       THEN /\ win' = win
            /\ bop' = [rec EXCEPT !.kind = "panic"]
       ELSE LET r == AppendBytes(win, new, start) IN
            /\ win' = r.b
            /\ bop' = [rec EXCEPT !.ok = r.ok, !.back = (r.b.start_pos < win.start_pos)]
    /\ UNCHANGED <<lock_vars, pcm_vars, ds_vars, progress_vars, play_vars>>

\* clear(start)
BufClear(start) ==
    /\ BufAlive
    /\ win' = Clear(win, start)
    /\ bop' = [NoOp EXCEPT !.op = "clear", !.pos = start]
    /\ UNCHANGED <<lock_vars, pcm_vars, ds_vars, progress_vars, play_vars>>

\* discard_before(pos)
BufDiscardBefore(pos) ==
    /\ BufAlive
    /\ win' = DiscardBefore(win, pos)
    /\ bop' = [NoOp EXCEPT !.op = "discard_before", !.pos = pos]
    /\ UNCHANGED <<lock_vars, pcm_vars, ds_vars, progress_vars, play_vars>>

\* read_at(pos, buf) with len(buf) = len: the bytes written to buf and the
\* count returned.  Below the window the subtraction overflows: a panic in
\* a build with overflow checks; otherwise off wraps to a huge value, len
\* is 0 and nothing is copied.
BufReadAt(pos, len) ==
    /\ BufAlive
    /\ win' = win
    /\ IF ReadAtOverflows(win, pos)
       THEN \E checked \in BOOLEAN :
                bop' = [NoOp EXCEPT !.op = "read_at", !.pos = pos, !.len = len,
                                    !.kind = IF checked THEN "panic" ELSE "ok"]
       ELSE bop' = [NoOp EXCEPT !.op = "read_at", !.pos = pos, !.len = len,
                                !.out = ReadAt(win, pos, len)]
    /\ UNCHANGED <<lock_vars, pcm_vars, ds_vars, progress_vars, play_vars>>

\* should_prefetch(pos)
BufShouldPrefetch(pos) ==
    /\ BufAlive
    /\ win' = win
    /\ bop' = [NoOp EXCEPT !.op = "should_prefetch", !.pos = pos, !.ok = ShouldPrefetch(win, pos)]
    /\ UNCHANGED <<lock_vars, pcm_vars, ds_vars, progress_vars, play_vars>>

\* Offsets a window is cleared to or a slice is appended at out of turn.
BufOffsets == 0..MaxOffset

\* Where a slice is appended: at one of these offsets or, as a prefetch is,
\* at the end of the window, as long as that lies within the resource.
AppendStarts == BufOffsets \cup ({EndPos(win)} \cap 0..(TotalBytes - 1))

\* Positions of the resource read_at, should_prefetch and discard_before
\* are asked about.
BufPositions == 0..TotalBytes

\* Lengths of the slices handed to append: empty, one byte, a whole
\* prefetch, the capacity and one more than the capacity.
AppendLens == {0, 1, PREFETCH_SIZE, BUFFER_SIZE, BUFFER_SIZE + 1}

BufNext ==
    \/ \E start \in AppendStarts, n \in AppendLens : BufAppend(start, n)
    \/ \E start \in BufOffsets : BufClear(start)
    \/ \E pos \in BufPositions : BufDiscardBefore(pos)
    \/ \E pos \in BufPositions, len \in 0..MaxReadLen : BufReadAt(pos, len)
    \/ \E pos \in BufPositions : BufShouldPrefetch(pos)

\* ============================================================= data source

FetchCmd(start, end, g) == [type |-> "Fetch", start |-> start, end |-> end, generation |-> g]
ShutdownCmd == [type |-> "Shutdown", start |-> 0, end |-> 0, generation |-> 0]

\* The body of a ranged GET from a server that returns exactly the bytes
\* start..end-1 asked for in the Range header.
FetchRange(start, end) == [k \in 1..(end - start) |-> Byte(start + k - 1)]

\* History: want is the target a seek was asked for, clamped to the
\* resource; at is the step a panic left the call at; hit, gen0 and sent
\* are what ensure found (contains(pos) and the generation) and the Fetch
\* commands it handed to fetch_tx.send; below says that a seek follows a
\* read that returned bytes and goes to an offset below the cursor.
NoCall == [op |-> "none", pos |-> 0, len |-> 0, min |-> 0, attempts |-> 0,
           ensure |-> "none", start |-> 0, size |-> 0, out |-> <<>>, want |-> 0,
           at |-> "none", hit |-> "none", gen0 |-> 0, sent |-> <<>>, below |-> FALSE]

NoReturn == [op |-> "none", kind |-> "none", n |-> 0, out |-> <<>>, pos |-> 0]

\* create_streaming_session has called StreamingDataSource::new, which is
\* about to probe the length: no buffer, worker or decode thread exists yet.
DsInit ==
    /\ session = "new"
    /\ total_bytes = 0
    /\ buffer = NewBuffer(0)
    /\ fetch_generation = 0
    /\ fetch_q = <<>>
    /\ res_q = 0
    /\ poisoned = FALSE
    /\ position = 0
    /\ rpc = "new_probe"
    /\ call = [NoCall EXCEPT !.op = "new", !.min = MIN_INITIAL_DATA]
    /\ rret = NoReturn
    /\ wpc = "unspawned"
    /\ wcmd = FetchCmd(0, 0, 0)
    /\ wdata = <<>>
    /\ wres = "none"
    /\ unnotified = 0
    /\ failed_at = None
    /\ server_exact = TRUE

worker_vars == <<wpc, wcmd, wdata, wres, unnotified, failed_at, server_exact>>

\* The worker thread has ended, by Shutdown or by a panic: rx_cmd and its
\* tx_res are dropped.
WorkerGone == wpc \in {"exited", "panicked"}

\* ------------------------------------------------------------ fetch worker

\* rx_cmd.recv() and, for a Fetch, buffer.lock().unwrap() and
\* buf.mark_pending(start, end).  The unwrap panics on a poisoned lock.
WorkerRecv ==
    /\ wpc = "recv"
    /\ fetch_q # <<>>
    /\ LET cmd == Head(fetch_q) IN
       /\ fetch_q' = Tail(fetch_q)
       /\ IF cmd.type = "Fetch"
          THEN /\ wcmd' = cmd
               /\ unnotified' = unnotified + 1
               /\ IF poisoned
                  THEN /\ wpc' = "panicked"
                       /\ wres' = "panic"
                       /\ buffer' = buffer
                  ELSE /\ wpc' = "http"
                       /\ wres' = wres
                       /\ buffer' = MarkPending(buffer, cmd.start, cmd.end)
          ELSE /\ wpc' = "exited"
               /\ UNCHANGED <<buffer, wcmd, wres, unnotified>>
    /\ UNCHANGED <<lock_vars, pcm_vars, buf_vars, progress_vars, play_vars, session, total_bytes, fetch_generation, res_q, poisoned,
                   position, rpc, call, rret, wdata, failed_at, server_exact>>

\* if request_generation != generation.load(SeqCst): the result is stale.
StaleResult(request_generation, g) == request_generation # g

\* fetch_range_blocking: the Range header "bytes={start}-{end-1}", both
\* ends inclusive.
RangeHeader(start, end) == [first |-> start, last |-> Max(0, end - 1)]

\* What resp.bytes() may hold for a request: the bytes the Range header
\* names, nothing, or the whole resource from a server ignoring the header.
Bodies(start, end) ==
    LET hdr == RangeHeader(start, end) IN
    {FetchRange(hdr.first, hdr.last + 1), <<>>, FetchRange(0, total_bytes)}

\* fetch_range_blocking returns Ok(data); the worker then loads the
\* generation: a stale result is only notified, pending stays marked.
WorkerFetched ==
    /\ wpc = "http"
    /\ \E body \in Bodies(wcmd.start, wcmd.end) :
          /\ server_exact' = (server_exact /\ body = FetchRange(wcmd.start, wcmd.end))
          /\ IF StaleResult(wcmd.generation, fetch_generation)
             THEN /\ res_q' = res_q + 1
                  /\ unnotified' = unnotified - 1
                  /\ wres' = "stale"
                  /\ wpc' = "recv"
                  /\ wdata' = <<>>
             ELSE /\ wdata' = body
                  /\ wpc' = "append"
                  /\ UNCHANGED <<res_q, unnotified, wres>>
    /\ UNCHANGED <<lock_vars, pcm_vars, buf_vars, progress_vars, play_vars, session, total_bytes, buffer, fetch_generation, fetch_q,
                   poisoned, position, rpc, call, rret, wcmd, failed_at>>

\* fetch_range_blocking fails: buffer.lock().unwrap(), buf.clear_pending()
\* and the notification, all under the buffer lock.
WorkerFetchFailed ==
    /\ wpc = "http"
    /\ IF poisoned
       THEN /\ wpc' = "panicked"
            /\ wres' = "panic"
            /\ UNCHANGED <<buffer, res_q, unnotified>>
       ELSE /\ buffer' = ClearPending(buffer)
            /\ res_q' = res_q + 1
            /\ unnotified' = unnotified - 1
            /\ wres' = "failed"
            /\ wpc' = "recv"
    /\ failed_at' = Some(wcmd.start)
    /\ UNCHANGED <<lock_vars, pcm_vars, buf_vars, progress_vars, play_vars, session, total_bytes, fetch_generation, fetch_q, poisoned,
                   position, rpc, call, rret, wcmd, wdata, server_exact>>

\* buffer.lock().unwrap() and buf.append(&data, start).  A panic inside
\* append happens with the lock held and poisons it.
WorkerAppend ==
    /\ wpc = "append"
    /\ IF poisoned \/ AppendPanics(buffer, wdata, wcmd.start)
       THEN /\ wpc' = "panicked"
            /\ wres' = "panic"
            /\ poisoned' = TRUE
            /\ buffer' = buffer
       ELSE /\ buffer' = AppendBytes(buffer, wdata, wcmd.start).b
            /\ wpc' = "notify"
            /\ UNCHANGED <<wres, poisoned>>
    /\ wdata' = <<>>
    /\ UNCHANGED <<lock_vars, pcm_vars, buf_vars, progress_vars, play_vars, session, total_bytes, fetch_generation, fetch_q, res_q,
                   position, rpc, call, rret, wcmd, unnotified, failed_at, server_exact>>

\* let _ = tx_res.send(()) after the append.
WorkerNotify ==
    /\ wpc = "notify"
    /\ res_q' = res_q + 1
    /\ unnotified' = unnotified - 1
    /\ wres' = "ok"
    /\ wpc' = "recv"
    /\ UNCHANGED <<lock_vars, pcm_vars, buf_vars, progress_vars, play_vars, session, total_bytes, buffer, fetch_generation, fetch_q,
                   poisoned, position, rpc, call, rret, wcmd, wdata, failed_at, server_exact>>

Worker == WorkerRecv \/ WorkerFetched \/ WorkerFetchFailed \/ WorkerAppend \/ WorkerNotify

\* ------------------------------------------------------------ reader thread

\* The ensure error is swallowed and read reports end of file.
ReadSwallowsEnsureError == [op |-> "read", kind |-> "Ok", n |-> 0, out |-> <<>>, pos |-> call.pos]

\* read maps an ensure error to an io::Error and returns it with `?`.
ReadResultOnEnsureError == [op |-> "read", kind |-> "Err", n |-> 0, out |-> <<>>, pos |-> call.pos]

\* seek maps an ensure error to an io::Error and returns it with `?`.
SeekResultOnEnsureError == [op |-> "seek", kind |-> "Err", n |-> 0, out |-> <<>>, pos |-> call.pos]

\* The worker is left running when the source is dropped.
DropKeepsWorker(q) == q

\* impl Drop for StreamingDataSource: fetch_tx.send(Shutdown); the join
\* that follows returns once the worker has left its loop.
DropSource(q) == Append(q, ShutdownCmd)

\* fetch_tx.send / try_send: with the worker gone rx_cmd is dropped and the
\* send fails, leaving nothing queued.
SendFails == WorkerGone

\* The source is dropped: by new on an error, or as a panic unwinds the
\* thread that owns it.
Dropped(q) == IF SendFails THEN q ELSE DropSource(q)

\* create_streaming_session: StreamingDataSource::new(..)? returns the
\* error at once; only after Ok is the decode thread spawned.
SessionAfterNew(ok) == IF ok THEN "started" ELSE "failed"

\* The lengths the probe may report.
Totals == {ShortTotal, TotalBytes}

\* new: the HEAD request and the content-length header, an Option<u64>.
\* A failed request and a missing or unparsable header (None) return the
\* error before anything is spawned; otherwise the buffer and the channels
\* are created and the fetch worker is spawned.
NewProbe ==
    /\ rpc = "new_probe"
    /\ \E length \in {None} \cup {Some(t) : t \in Totals} :
          IF length = None
          THEN /\ rpc' = "failed"
               /\ rret' = [op |-> "new", kind |-> "Err", n |-> 0, out |-> <<>>, pos |-> 0]
               /\ session' = SessionAfterNew(FALSE)
               /\ UNCHANGED <<total_bytes, buffer, wpc>>
          ELSE /\ total_bytes' = length[1]
               /\ buffer' = NewBuffer(length[1])
               /\ wpc' = "recv"
               /\ rpc' = "new_fetch"
               /\ UNCHANGED <<rret, session>>
    /\ UNCHANGED <<lock_vars, pcm_vars, buf_vars, progress_vars, play_vars, poisoned, fetch_generation, fetch_q, res_q, position,
                   call, wcmd, wdata, wres, unnotified, failed_at, server_exact>>

\* What follows wait_for / ensure returning ok or an error, by caller:
\* new returns the source or drops it (Drop sends Shutdown), read goes on
\* to read_at or returns the error, seek returns Ok(new) or the error.
EnsureReturns(ok, c) ==
    /\ call' = [c EXCEPT !.ensure = IF ok THEN "ok" ELSE "err"]
    /\ IF c.op = "new"
       THEN /\ rpc' = IF ok THEN "idle" ELSE "dropped"
            /\ rret' = [op |-> "new", kind |-> IF ok THEN "Ok" ELSE "Err", n |-> 0,
                        out |-> <<>>, pos |-> 0]
            /\ fetch_q' = IF ok THEN fetch_q ELSE Dropped(fetch_q)
            /\ session' = SessionAfterNew(ok)
       ELSE IF c.op = "read"
       THEN /\ rpc' = IF ok THEN "read_at" ELSE "idle"
            /\ rret' = IF ok THEN rret ELSE ReadResultOnEnsureError
            /\ fetch_q' = fetch_q
            /\ session' = session
       ELSE /\ rpc' = "idle"
            /\ rret' = IF ok THEN [op |-> "seek", kind |-> "Ok", n |-> c.pos, out |-> <<>>,
                                   pos |-> c.pos]
                       ELSE SeekResultOnEnsureError
            /\ fetch_q' = fetch_q
            /\ session' = session

\* fetch(): end = (start + size).min(total_bytes), tagged with the
\* generation loaded now.
FetchFor(start, size) == FetchCmd(start, Min(start + size, total_bytes), fetch_generation)

\* new: src.fetch(0, PREFETCH_SIZE)?
NewFetch ==
    /\ rpc = "new_fetch"
    /\ fetch_q' = Append(fetch_q, FetchFor(0, PREFETCH_SIZE))
    /\ rpc' = "wait_check"
    /\ UNCHANGED <<lock_vars, pcm_vars, buf_vars, progress_vars, play_vars, poisoned, session, total_bytes, buffer, fetch_generation, res_q, position, call, rret, worker_vars>>

\* wait_for returns Ok without looking at the buffer.
WaitNotNeeded(b, pos, min) == TRUE

\* wait_for: buf.available_from(pos) >= min || buf.eof
WaitSatisfied(b, pos, min) == AvailableFrom(b, pos) >= min \/ b.eof

\* wait_for: the first look at the buffer.
WaitCheck ==
    /\ rpc = "wait_check"
    /\ ~poisoned
    /\ IF WaitSatisfied(buffer, call.pos, call.min)
       THEN EnsureReturns(TRUE, call)
       ELSE /\ call' = [call EXCEPT !.attempts = 0]
            /\ rpc' = "wait_recv"
            /\ UNCHANGED <<rret, fetch_q, session>>
    /\ UNCHANGED <<lock_vars, pcm_vars, buf_vars, progress_vars, play_vars, poisoned, total_bytes, buffer, fetch_generation, res_q, position, worker_vars>>

\* A timeout is not counted.
TimeoutNotCounted(attempts) == attempts

\* wait_for: attempts += 1 on a timeout.
AfterTimeout(attempts) == attempts + 1

\* wait_for: fetch_rx.recv_timeout(50 ms) returns a completion.
WaitRecv ==
    /\ rpc = "wait_recv"
    /\ res_q > 0
    /\ res_q' = res_q - 1
    /\ rpc' = "wait_recheck"
    /\ UNCHANGED <<lock_vars, pcm_vars, buf_vars, progress_vars, play_vars, poisoned, session, total_bytes, buffer, fetch_generation, fetch_q, position, call, rret, worker_vars>>

\* The completion channel has lost every sender: the worker's clone is
\* gone with the worker, and the original, a local of new, with new.
Disconnected == WorkerGone /\ call.op # "new"

\* wait_for: recv_timeout finds the channel empty and disconnected:
\* Err(_) => break, and wait_for returns the error.
WaitDisconnected ==
    /\ rpc = "wait_recv"
    /\ res_q = 0
    /\ Disconnected
    /\ EnsureReturns(FALSE, call)
    /\ UNCHANGED <<lock_vars, pcm_vars, buf_vars, progress_vars, play_vars, poisoned, total_bytes, buffer, fetch_generation, res_q, position, worker_vars>>

\* wait_for: recv_timeout times out; after MAX_ATTEMPTS timeouts the loop
\* ends and wait_for returns the error.
WaitTimeout ==
    /\ rpc = "wait_recv"
    /\ res_q = 0
    /\ ~Disconnected
    /\ LET c == [call EXCEPT !.attempts = AfterTimeout(call.attempts)] IN
       IF c.attempts < MAX_ATTEMPTS
       THEN /\ call' = c
            /\ UNCHANGED <<rpc, rret, fetch_q, session>>
       ELSE EnsureReturns(FALSE, c)
    /\ UNCHANGED <<lock_vars, pcm_vars, buf_vars, progress_vars, play_vars, poisoned, total_bytes, buffer, fetch_generation, res_q, position, worker_vars>>

\* wait_for: the look at the buffer after a completion.
WaitRecheck ==
    /\ rpc = "wait_recheck"
    /\ ~poisoned
    /\ IF WaitSatisfied(buffer, call.pos, call.min)
       THEN EnsureReturns(TRUE, call)
       ELSE /\ rpc' = "wait_recv"
            /\ UNCHANGED <<call, rret, fetch_q, session>>
    /\ UNCHANGED <<lock_vars, pcm_vars, buf_vars, progress_vars, play_vars, poisoned, total_bytes, buffer, fetch_generation, res_q, position, worker_vars>>

\* read: the position load, the EOF test and b.contains(pos).
ReadContains ==
    /\ rpc = "read_contains"
    /\ ~poisoned
    /\ rpc' = IF Contains(buffer, call.pos) THEN "read_at" ELSE "ensure_contains"
    /\ UNCHANGED <<lock_vars, pcm_vars, buf_vars, progress_vars, play_vars, poisoned, session, total_bytes, buffer, fetch_generation, fetch_q, res_q, position, call, rret,
                   worker_vars>>

\* ensure: buf.contains(pos) under the lock.
EnsureContains ==
    /\ rpc = "ensure_contains"
    /\ ~poisoned
    /\ LET hit == Contains(buffer, call.pos)
           c   == [call EXCEPT !.gen0 = fetch_generation,
                               !.hit = IF hit THEN "hit" ELSE "miss"]
       IN
       IF hit
       THEN EnsureReturns(TRUE, c)
       ELSE /\ call' = c
            /\ rpc' = "ensure_bump"
            /\ UNCHANGED <<rret, fetch_q, session>>
    /\ UNCHANGED <<lock_vars, pcm_vars, buf_vars, progress_vars, play_vars, poisoned, total_bytes, buffer, fetch_generation, res_q, position, worker_vars>>

\* ensure: self.generation.fetch_add(1, SeqCst)
EnsureBump ==
    /\ rpc = "ensure_bump"
    /\ fetch_generation' = fetch_generation + 1
    /\ rpc' = "ensure_clear"
    /\ UNCHANGED <<lock_vars, pcm_vars, buf_vars, progress_vars, play_vars, poisoned, session, total_bytes, buffer, fetch_q, res_q, position, call, rret, worker_vars>>

\* The size is not clamped to what is left of the resource.
EnsureSizeUnclamped(pos) == PREFETCH_SIZE

\* ensure: PREFETCH_SIZE.min(total_bytes.saturating_sub(pos))
EnsureSize(pos) == Min(PREFETCH_SIZE, Max(0, total_bytes - pos))

\* ensure: buf.clear(pos) under the lock, then the size of the fetch; with
\* nothing left to fetch ensure returns Ok.
EnsureClear ==
    /\ rpc = "ensure_clear"
    /\ ~poisoned
    /\ buffer' = Clear(buffer, call.pos)
    /\ LET size == EnsureSize(call.pos) IN
       IF size > 0
       THEN /\ call' = [call EXCEPT !.size = size, !.min = Min(PREFETCH_SIZE, size)]
            /\ rpc' = "ensure_fetch"
            /\ UNCHANGED <<rret, fetch_q, session>>
       ELSE EnsureReturns(TRUE, call)
    /\ UNCHANGED <<lock_vars, pcm_vars, buf_vars, progress_vars, play_vars, poisoned, total_bytes, fetch_generation, res_q, position, worker_vars>>

\* ensure: self.fetch(pos, size)?  A failed send is returned as the error.
EnsureFetch ==
    /\ rpc = "ensure_fetch"
    /\ LET cmd == FetchFor(call.pos, call.size)
           c   == [call EXCEPT !.sent = Append(@, cmd)]
       IN
       IF SendFails
       THEN EnsureReturns(FALSE, c)
       ELSE /\ fetch_q' = Append(fetch_q, cmd)
            /\ call' = c
            /\ rpc' = "wait_check"
            /\ UNCHANGED <<session, rret>>
    /\ UNCHANGED <<lock_vars, pcm_vars, buf_vars, progress_vars, play_vars, poisoned, total_bytes, buffer, fetch_generation, res_q, position, worker_vars>>

\* read: what the call returns for the bytes read_at copied.
ReadResult(c, out) == [op |-> "read", kind |-> "Ok", n |-> Len(out), out |-> out, pos |-> c.pos]

\* read: b.read_at(pos, buf) and b.discard_before under one lock, then
\* position.fetch_add(bytes).  Below the window read_at's subtraction
\* overflows: a panic in a build with overflow checks, 0 bytes otherwise.
\* The panic happens with the lock held, poisons it and drops the source
\* as it unwinds.
ReadAtStep ==
    /\ rpc = "read_at"
    /\ ~poisoned
    /\ IF ReadAtOverflows(buffer, call.pos)
       THEN /\ \E checked \in BOOLEAN :
                 IF checked
                 THEN /\ rpc' = "panicked"
                      /\ rret' = [op |-> "read", kind |-> "Panic", n |-> 0, out |-> <<>>,
                                  pos |-> call.pos]
                      /\ call' = [call EXCEPT !.at = rpc]
                      /\ poisoned' = TRUE
                      /\ fetch_q' = Dropped(fetch_q)
                 ELSE /\ rpc' = "idle"
                      /\ rret' = ReadResult(call, <<>>)
                      /\ UNCHANGED <<call, poisoned, fetch_q>>
            /\ UNCHANGED <<buffer, position>>
       ELSE LET out == ReadAt(buffer, call.pos, call.len) IN
            /\ buffer' = IF Len(out) > 0 THEN DiscardBefore(buffer, call.pos + Len(out))
                         ELSE buffer
            /\ position' = position + Len(out)
            /\ call' = [call EXCEPT !.out = out]
            /\ IF Len(out) > 0
               THEN /\ rpc' = "prefetch_check"
                    /\ rret' = rret
               ELSE /\ rpc' = "idle"
                    /\ rret' = ReadResult(call, out)
            /\ UNCHANGED <<poisoned, fetch_q>>
    /\ UNCHANGED <<lock_vars, pcm_vars, buf_vars, progress_vars, play_vars, session, total_bytes, fetch_generation, res_q, worker_vars>>

\* The prefetch starts at the cursor.
PrefetchFromCursor(b, pos) == pos

\* trigger_prefetch: let start = buf.end_pos()
PrefetchStart(b, pos) == EndPos(b)

\* trigger_prefetch: should_prefetch(pos), end_pos and the size, under the lock.
PrefetchCheck ==
    /\ rpc = "prefetch_check"
    /\ ~poisoned
    /\ LET start == PrefetchStart(buffer, position)
           size  == Min(PREFETCH_SIZE, Max(0, total_bytes - start))
       IN
       IF ShouldPrefetch(buffer, position) /\ size > 0
       THEN /\ call' = [call EXCEPT !.start = start, !.size = size]
            /\ rpc' = "prefetch_send"
            /\ rret' = rret
       ELSE /\ call' = call
            /\ rpc' = "idle"
            /\ rret' = ReadResult(call, call.out)
    /\ UNCHANGED <<lock_vars, pcm_vars, buf_vars, progress_vars, play_vars, poisoned, session, total_bytes, buffer, fetch_generation, fetch_q, res_q, position, worker_vars>>

\* trigger_prefetch: fetch_tx.try_send(Fetch{start, start + size, generation}),
\* its result ignored, then read returns Ok(bytes).
PrefetchSend ==
    /\ rpc = "prefetch_send"
    /\ fetch_q' = IF SendFails THEN fetch_q
                  ELSE Append(fetch_q, FetchCmd(call.start, call.start + call.size,
                                                fetch_generation))
    /\ rpc' = "idle"
    /\ rret' = ReadResult(call, call.out)
    /\ UNCHANGED <<lock_vars, pcm_vars, buf_vars, progress_vars, play_vars, poisoned, session, total_bytes, buffer, fetch_generation, res_q, position, call, worker_vars>>

\* Where the reader takes the buffer lock.
LockSteps == {"wait_check", "wait_recheck", "read_contains", "ensure_contains",
              "ensure_clear", "read_at", "prefetch_check"}

\* self.buffer.lock().unwrap() on a poisoned lock: the call panics and the
\* source is dropped as the panic unwinds.
LockPoisoned ==
    /\ rpc \in LockSteps
    /\ poisoned
    /\ rpc' = "panicked"
    /\ rret' = [op |-> call.op, kind |-> "Panic", n |-> 0, out |-> <<>>, pos |-> call.pos]
    /\ call' = [call EXCEPT !.at = rpc]
    /\ fetch_q' = Dropped(fetch_q)
    /\ UNCHANGED <<lock_vars, pcm_vars, buf_vars, progress_vars, play_vars, poisoned, session, total_bytes, buffer, fetch_generation,
                   res_q, position, worker_vars>>

\* The steps of a running new / read / seek call.
ReaderStep ==
    \/ LockPoisoned
    \/ WaitDisconnected
    \/ NewProbe
    \/ NewFetch
    \/ WaitCheck
    \/ WaitRecv
    \/ WaitTimeout
    \/ WaitRecheck
    \/ ReadContains
    \/ EnsureContains
    \/ EnsureBump
    \/ EnsureClear
    \/ EnsureFetch
    \/ ReadAtStep
    \/ PrefetchCheck
    \/ PrefetchSend

\* The decoder calls read or seek only while the counters are within the
\* bounds explored.
WithinBounds ==
    /\ fetch_generation < MaxFetchGen
    /\ Len(fetch_q) + res_q <= MaxInFlight

\* Read::read(buf) with len(buf) = len: the position load and the EOF test.
CallRead(len) ==
    /\ rpc = "idle"
    /\ WithinBounds
    /\ IF position >= total_bytes
       THEN /\ rret' = [op |-> "read", kind |-> "Ok", n |-> 0, out |-> <<>>, pos |-> position]
            /\ UNCHANGED <<rpc, call>>
       ELSE /\ call' = [NoCall EXCEPT !.op = "read", !.pos = position, !.len = len]
            /\ rpc' = "read_contains"
            /\ rret' = rret
    /\ UNCHANGED <<lock_vars, pcm_vars, buf_vars, progress_vars, play_vars, poisoned, session, total_bytes, buffer, fetch_generation, fetch_q, res_q, position, worker_vars>>

I64_MIN == -(2 ^ (OffsetBits - 1))
I64_MAX == 2 ^ (OffsetBits - 1) - 1

\* (-off) as u64 overflows for the least offset: a build with overflow
\* checks panics there.
NegOverflows(off) == off = I64_MIN

\* (-off) as u64 where the negation wraps: the least offset stays itself
\* and converts to its magnitude.
NegAsU64(off) == IF off = I64_MIN THEN 2 ^ (OffsetBits - 1) ELSE -off

\* Seek::seek: the target by SeekFrom variant, then .min(total_bytes).
\* saturating_add only matters above u64::MAX, where .min(total_bytes)
\* gives total_bytes all the same.
SeekTarget(from, cur) ==
    LET new == IF from.whence = "Start" THEN from.off
               ELSE LET base == IF from.whence = "End" THEN total_bytes ELSE cur IN
                    IF from.off >= 0 THEN base + from.off
                    ELSE Max(0, base - NegAsU64(from.off))
    IN  Min(new, total_bytes)

\* The offset a SeekFrom asks for, clamped to [0, total_bytes].
Wanted(from, cur) ==
    LET base == IF from.whence = "Start" THEN 0
                ELSE IF from.whence = "End" THEN total_bytes ELSE cur
    IN  Max(0, Min(total_bytes, base + from.off))

\* The last call to return was a read that returned n > 0.
ReadGotBytes == rret.op = "read" /\ rret.kind = "Ok" /\ rret.n > 0

\* Seek::seek(from): position.store(new), then ensure(new).
CallSeek(from) ==
    /\ rpc = "idle"
    /\ WithinBounds
    /\ \E checked \in {FALSE, from.whence # "Start" /\ NegOverflows(from.off)} :
          IF checked
          THEN /\ rpc' = "panicked"
               /\ rret' = [op |-> "seek", kind |-> "Panic", n |-> 0, out |-> <<>>,
                            pos |-> position]
               /\ call' = [NoCall EXCEPT !.op = "seek", !.want = Wanted(from, position),
                                         !.at = rpc]
               /\ position' = position
               /\ fetch_q' = Dropped(fetch_q)
          ELSE /\ position' = SeekTarget(from, position)
               /\ call' = [NoCall EXCEPT !.op = "seek", !.pos = SeekTarget(from, position),
                                         !.want = Wanted(from, position),
                                         !.below = /\ ReadGotBytes
                                                   /\ SeekTarget(from, position) < position]
               /\ rpc' = "ensure_contains"
               /\ rret' = rret
               /\ fetch_q' = fetch_q
    /\ UNCHANGED <<lock_vars, pcm_vars, buf_vars, progress_vars, play_vars, poisoned, session, total_bytes, buffer, fetch_generation, res_q, worker_vars>>

\* Offsets handed to SeekFrom::End and SeekFrom::Current.
SeekOffsets == {I64_MIN, -1, 0, 1, I64_MAX}

\* The SeekFrom values the decoder may pass.
SeekFroms ==
    [whence : {"Start"}, off : 0..(TotalBytes + 1)]
        \cup [whence : {"End", "Current"}, off : SeekOffsets]

DsNext ==
    \/ ReaderStep
    \/ Worker
    \/ \E len \in 1..MaxReadLen : CallRead(len)
    \/ \E from \in SeekFroms : CallSeek(from)

\* ==================================================================== lock
\* The locking of data_source.rs, one statement at a time: where the reader
\* and the fetch worker take the buffer Mutex, where its guard is dropped,
\* and where they wait (for the lock, a channel, the server, the join).
\* What the buffer holds is left out: a branch on it is a choice.

LockInit ==
    /\ buffer_lock = "free"
    /\ lock_poisoned = FALSE
    /\ rl = [at |-> "fetch", from |-> "new", attempts |-> 0]
    /\ wl = "recv"
    /\ lk_cmds = <<>>
    /\ lk_res = 0
    /\ lk_calls = 0

At(at, from) == [at |-> at, from |-> from, attempts |-> 0]

\* The worker has left fetch_loop_blocking, by Shutdown or by a panic.
WorkerEnded == wl \in {"exited", "panicked"}

\* A panic unwinds the thread that owns the source: the source is dropped.
\* A panic inside new leaves no session behind.
Unwind(from) == At("drop_send", IF from = "new" THEN "new_panic" ELSE "panic")

\* The reader's thread has panicked.
ReaderPanicked == rl.from \in {"panic", "new_panic"}

\* new has returned Ok: create_streaming_session goes on to spawn the
\* decode thread and to hand out the consumer and the controller.
SessionStarted == rl.from \notin {"new", "new_panic"}

\* Where the reader goes on when ensure or wait_for returns Ok or Err to
\* new, read or seek.  new returns the error with `?` and drops the source.
Return(from, ok) ==
    IF from = "new" THEN (IF ok THEN At("idle", "none") ELSE At("drop_send", "new"))
    ELSE IF from = "read" /\ ok THEN At("read_at", "read")
    ELSE At("idle", "none")

\* self.buffer.lock().unwrap() by the reader: it waits while the worker
\* holds the guard; on a poisoned Mutex lock() returns the error at once
\* and unwrap panics.
ReaderAcquire ==
    /\ rl.at \in LockSteps
    /\ buffer_lock = "free"
    /\ IF lock_poisoned
       THEN rl' = Unwind(rl.from) /\ buffer_lock' = buffer_lock
       ELSE buffer_lock' = "reader" /\ rl' = rl
    /\ UNCHANGED <<pcm_vars, ds_vars, buf_vars, progress_vars, play_vars,
                   lock_poisoned, wl, lk_cmds, lk_res, lk_calls>>

\* The end of each block that holds the reader's guard, and the branch the
\* code takes on what it saw under the lock.  read_at may panic with the
\* guard held, which poisons the Mutex.
ReaderRelease ==
    /\ buffer_lock = "reader"
    /\ buffer_lock' = "free"
    /\ \E yes \in BOOLEAN, panic \in {FALSE, rl.at = "read_at"} :
          /\ lock_poisoned' = (lock_poisoned \/ panic)
          /\ rl' = IF panic THEN Unwind(rl.from)
                   ELSE CASE rl.at = "read_contains" ->
                               IF yes THEN At("read_at", "read")
                               ELSE At("ensure_contains", "read")
                          [] rl.at = "read_at" ->
                               IF yes THEN At("prefetch_check", "read")
                               ELSE At("idle", "none")
                          [] rl.at = "ensure_contains" ->
                               IF yes THEN Return(rl.from, TRUE)
                               ELSE At("ensure_bump", rl.from)
                          [] rl.at = "ensure_clear" ->
                               IF yes THEN At("fetch", rl.from)
                               ELSE Return(rl.from, TRUE)
                          [] rl.at = "wait_check" ->
                               IF yes THEN Return(rl.from, TRUE)
                               ELSE At("wait_recv", rl.from)
                          [] rl.at = "wait_recheck" ->
                               IF yes THEN Return(rl.from, TRUE)
                               ELSE [rl EXCEPT !.at = "wait_recv"]
                          [] rl.at = "prefetch_check" ->
                               IF yes THEN At("prefetch_send", "read")
                               ELSE At("idle", "none")
    /\ UNCHANGED <<pcm_vars, ds_vars, buf_vars, progress_vars, play_vars,
                   wl, lk_cmds, lk_res, lk_calls>>

\* A read or a seek begins, or the source is dropped.
ReaderCall ==
    /\ rl.at = "idle"
    /\ \/ /\ lk_calls < MaxLockCalls
          /\ lk_calls' = lk_calls + 1
          /\ \E first \in {At("read_contains", "read"), At("ensure_contains", "seek")} :
                rl' = first
       \/ /\ rl' = At("drop_send", "drop")
          /\ lk_calls' = lk_calls
    /\ UNCHANGED <<pcm_vars, ds_vars, buf_vars, progress_vars, play_vars,
                   buffer_lock, lock_poisoned, wl, lk_cmds, lk_res>>

\* ensure: self.generation.fetch_add(1).
ReaderBump ==
    /\ rl.at = "ensure_bump"
    /\ rl' = At("ensure_clear", rl.from)
    /\ UNCHANGED <<pcm_vars, ds_vars, buf_vars, progress_vars, play_vars,
                   buffer_lock, lock_poisoned, wl, lk_cmds, lk_res, lk_calls>>

\* fetch: fetch_tx.send(Fetch), which never waits (the channel is
\* unbounded) and fails when the worker has ended.
ReaderFetch ==
    /\ rl.at = "fetch"
    /\ IF WorkerEnded
       THEN rl' = Return(rl.from, FALSE) /\ lk_cmds' = lk_cmds
       ELSE rl' = At("wait_check", rl.from) /\ lk_cmds' = Append(lk_cmds, "Fetch")
    /\ UNCHANGED <<pcm_vars, ds_vars, buf_vars, progress_vars, play_vars,
                   buffer_lock, lock_poisoned, wl, lk_res, lk_calls>>

\* wait_for: fetch_rx.recv_timeout(50ms) yields a completion, or times
\* out (the loop ends after MAX_ATTEMPTS timeouts), or finds every sender
\* gone.
ReaderRecvTimeout ==
    /\ rl.at = "wait_recv"
    /\ \/ /\ lk_res > 0
          /\ lk_res' = lk_res - 1
          /\ rl' = [rl EXCEPT !.at = "wait_recheck"]
       \/ /\ lk_res = 0
          /\ lk_res' = lk_res
          /\ rl' = IF WorkerEnded /\ rl.from # "new" THEN Return(rl.from, FALSE)
                   ELSE IF rl.attempts + 1 < MAX_ATTEMPTS
                   THEN [rl EXCEPT !.attempts = @ + 1]
                   ELSE Return(rl.from, FALSE)
    /\ UNCHANGED <<pcm_vars, ds_vars, buf_vars, progress_vars, play_vars,
                   buffer_lock, lock_poisoned, wl, lk_cmds, lk_calls>>

\* trigger_prefetch: fetch_tx.try_send(Fetch), its result ignored.
ReaderPrefetchSend ==
    /\ rl.at = "prefetch_send"
    /\ lk_cmds' = IF WorkerEnded THEN lk_cmds ELSE Append(lk_cmds, "Fetch")
    /\ rl' = At("idle", "none")
    /\ UNCHANGED <<pcm_vars, ds_vars, buf_vars, progress_vars, play_vars,
                   buffer_lock, lock_poisoned, wl, lk_res, lk_calls>>

\* The source is dropped without a Shutdown being sent.
ShutdownNotSent(q) == q

\* let _ = self.fetch_tx.send(FetchCommand::Shutdown).
ShutdownSent(q) == Append(q, "Shutdown")

\* Drop: fetch_tx.send(Shutdown).
ReaderDropSend ==
    /\ rl.at = "drop_send"
    /\ lk_cmds' = IF WorkerEnded THEN lk_cmds ELSE ShutdownSent(lk_cmds)
    /\ rl' = [rl EXCEPT !.at = "drop_join"]
    /\ UNCHANGED <<pcm_vars, ds_vars, buf_vars, progress_vars, play_vars,
                   buffer_lock, lock_poisoned, wl, lk_res, lk_calls>>

\* Drop: h.join() returns when the worker has ended.
ReaderDropJoin ==
    /\ rl.at = "drop_join"
    /\ WorkerEnded
    /\ rl' = [rl EXCEPT !.at = "dropped"]
    /\ UNCHANGED <<pcm_vars, ds_vars, buf_vars, progress_vars, play_vars,
                   buffer_lock, lock_poisoned, wl, lk_cmds, lk_res, lk_calls>>

ReaderLocking ==
    \/ ReaderAcquire
    \/ ReaderRelease
    \/ ReaderCall
    \/ ReaderBump
    \/ ReaderFetch
    \/ ReaderRecvTimeout
    \/ ReaderPrefetchSend
    \/ ReaderDropSend
    \/ ReaderDropJoin

\* Where the worker takes the buffer lock: for mark_pending, for append
\* and for clear_pending.
WorkerLockSteps == {"mark", "append", "clear"}

\* while let Ok(cmd) = rx_cmd.recv(): the worker waits for a command.
WorkerCommand ==
    /\ wl = "recv"
    /\ lk_cmds # <<>>
    /\ lk_cmds' = Tail(lk_cmds)
    /\ wl' = IF Head(lk_cmds) = "Fetch" THEN "mark" ELSE "exited"
    /\ UNCHANGED <<pcm_vars, ds_vars, buf_vars, progress_vars, play_vars,
                   buffer_lock, lock_poisoned, rl, lk_res, lk_calls>>

\* buffer.lock().unwrap() by the worker.
WorkerAcquire ==
    /\ wl \in WorkerLockSteps
    /\ buffer_lock = "free"
    /\ IF lock_poisoned
       THEN wl' = "panicked" /\ buffer_lock' = buffer_lock
       ELSE buffer_lock' = "worker" /\ wl' = wl
    /\ UNCHANGED <<pcm_vars, ds_vars, buf_vars, progress_vars, play_vars,
                   lock_poisoned, rl, lk_cmds, lk_res, lk_calls>>

\* The guard of mark_pending is kept until the response has arrived.
GuardKeptForRequest == "worker"

\* { let mut buf = buffer.lock().unwrap(); buf.mark_pending(start, end); }:
\* the guard is dropped at the end of the block, before
\* fetch_range_blocking is called.
GuardAfterMark == "free"

\* The end of each block that holds the worker's guard.  append may panic
\* with the guard held; the Err arm sends the completion before its guard
\* goes out of scope.
WorkerRelease ==
    /\ buffer_lock = "worker"
    /\ \/ /\ wl = "mark"
          /\ wl' = "http"
          /\ buffer_lock' = GuardAfterMark
          /\ UNCHANGED <<lock_poisoned, lk_res>>
       \/ /\ wl = "append"
          /\ buffer_lock' = "free"
          /\ \E panic \in BOOLEAN :
                /\ wl' = IF panic THEN "panicked" ELSE "notify"
                /\ lock_poisoned' = (lock_poisoned \/ panic)
          /\ lk_res' = lk_res
       \/ /\ wl = "clear"
          /\ buffer_lock' = "free"
          /\ lk_res' = lk_res + 1
          /\ wl' = "recv"
          /\ lock_poisoned' = lock_poisoned
    /\ UNCHANGED <<pcm_vars, ds_vars, buf_vars, progress_vars, play_vars,
                   rl, lk_cmds, lk_calls>>

\* fetch_range_blocking returns: a stale result is only notified, a
\* current one goes to append, an error to clear_pending.
WorkerHttpReturns ==
    /\ wl = "http"
    /\ \E next \in {"recv", "append", "clear"} :
          /\ wl' = next
          /\ lk_res' = IF next = "recv" THEN lk_res + 1 ELSE lk_res
    /\ UNCHANGED <<pcm_vars, ds_vars, buf_vars, progress_vars, play_vars,
                   buffer_lock, lock_poisoned, rl, lk_cmds, lk_calls>>

\* let _ = tx_res.send(()) after append.
WorkerSendsCompletion ==
    /\ wl = "notify"
    /\ lk_res' = lk_res + 1
    /\ wl' = "recv"
    /\ UNCHANGED <<pcm_vars, ds_vars, buf_vars, progress_vars, play_vars,
                   buffer_lock, lock_poisoned, rl, lk_cmds, lk_calls>>

WorkerLocking ==
    \/ WorkerCommand
    \/ WorkerAcquire
    \/ WorkerRelease
    \/ WorkerHttpReturns
    \/ WorkerSendsCompletion

LockNext == ReaderLocking \/ WorkerLocking

\* ================================================================ progress
\* TrackProgress of progress.rs: its generation and the current position.
\* The other fields (durations, byte counts, bitrate) are written by reset
\* and by the data source and read by no operation modelled here.

ProgressInit ==
    /\ track_generation = 0
    /\ current_position = 0
    /\ resetting = FALSE

\* TrackProgress::reset, by the thread that stops playback:
\* self.generation.fetch_add(1, SeqCst).
ResetBegin ==
    /\ ~resetting
    /\ track_generation < MaxResets
    /\ track_generation' = track_generation + 1
    /\ resetting' = TRUE
    /\ UNCHANGED <<lock_vars, pcm_vars, ds_vars, buf_vars, play_vars, current_position>>

\* TrackProgress::reset, the stores that follow: set_current_position(ZERO).
ResetStore ==
    /\ resetting
    /\ current_position' = 0
    /\ resetting' = FALSE
    /\ UNCHANGED <<lock_vars, pcm_vars, ds_vars, buf_vars, play_vars, track_generation>>

\* ============================================================== controller
\* AudioController of controller.rs.  Its commands come from AudioSystem,
\* which holds it by &mut self and awaits each one: they run one after the
\* other.  The start task a play_track spawns runs on a worker thread of the
\* multi-threaded runtime, concurrently with the commands that follow.  A
\* play_track call and its task are named by the call's number.
\* start_monitor, which only ever replaces Playing by Stopped, and pause and
\* resume are left out.

Stopped == [kind |-> "Stopped", call |-> 0]
Buffering(n) == [kind |-> "Buffering", call |-> n]
Playing(n) == [kind |-> "Playing", call |-> n]
ErrorState == [kind |-> "Error", call |-> 0]

Idle == [op |-> "idle", at |-> "idle"]

PlayInit ==
    /\ playback_state = Stopped
    /\ sink = <<>>
    /\ current_playback_task = None
    /\ task = [n \in 1..MaxCalls |-> "unspawned"]
    /\ apc = Idle
    /\ calls = 0
    /\ superseded = {}

\* handle_command(PlayTrack(track)): play_track begins with self.stop().
CallPlayTrack ==
    /\ apc = Idle
    /\ calls < MaxCalls
    /\ apc' = [op |-> "play_track", at |-> "abort"]
    /\ UNCHANGED <<lock_vars, pcm_vars, ds_vars, buf_vars, progress_vars, playback_state, sink,
                   current_playback_task, task, calls, superseded>>

\* handle_command(Stop).
CallStop ==
    /\ apc = Idle
    /\ apc' = [op |-> "stop", at |-> "abort"]
    /\ UNCHANGED <<lock_vars, pcm_vars, ds_vars, buf_vars, progress_vars, playback_state, sink,
                   current_playback_task, task, calls, superseded>>

\* JoinHandle::abort: a task suspended at its await is cancelled there and
\* never polled again; a task that is being polled runs on to its next
\* await, and the start task has none after create_stream_session.
Abort(pc) == IF pc = "creating" THEN "cancelled" ELSE pc

\* stop(): if let Some(task) = task_guard.take() { task.abort(); }
StopAbort ==
    /\ apc.at = "abort"
    /\ current_playback_task' = None
    /\ task' = IF current_playback_task = None THEN task
               ELSE [task EXCEPT ![current_playback_task[1]] = Abort(@)]
    /\ apc' = [apc EXCEPT !.at = "engine_stop"]
    /\ UNCHANGED <<lock_vars, pcm_vars, ds_vars, buf_vars, progress_vars, playback_state, sink,
                   calls, superseded>>

\* stop(): self.engine.stop(), which is sink.stop(): the sink drops the
\* sources queued in it.
StopEngine ==
    /\ apc.at = "engine_stop"
    /\ sink' = <<>>
    /\ apc' = [apc EXCEPT !.at = "set_stopped"]
    /\ UNCHANGED <<lock_vars, pcm_vars, ds_vars, buf_vars, progress_vars, playback_state,
                   current_playback_task, task, calls, superseded>>

\* stop(): progress.reset(), which touches the TrackProgress only, and
\* *state = PlaybackState::Stopped.  When stop has returned, every task
\* spawned so far has been replaced.
StopSetState ==
    /\ apc.at = "set_stopped"
    /\ playback_state' = Stopped
    /\ superseded' = 1..calls
    /\ apc' = IF apc.op = "stop" THEN Idle ELSE [apc EXCEPT !.at = "set_buffering"]
    /\ UNCHANGED <<lock_vars, pcm_vars, ds_vars, buf_vars, progress_vars, sink,
                   current_playback_task, task, calls>>

\* play_track: *state = PlaybackState::Buffering(track.clone()).
PlaySetBuffering ==
    /\ apc.at = "set_buffering"
    /\ playback_state' = Buffering(calls + 1)
    /\ apc' = [apc EXCEPT !.at = "spawn"]
    /\ UNCHANGED <<lock_vars, pcm_vars, ds_vars, buf_vars, progress_vars, sink,
                   current_playback_task, task, calls, superseded>>

\* play_track: let task = tokio::spawn(async move { ... }).
PlaySpawn ==
    /\ apc.at = "spawn"
    /\ calls' = calls + 1
    /\ task' = [task EXCEPT ![calls + 1] = "creating"]
    /\ apc' = [apc EXCEPT !.at = "store"]
    /\ UNCHANGED <<lock_vars, pcm_vars, ds_vars, buf_vars, progress_vars, playback_state, sink,
                   current_playback_task, superseded>>

\* play_track: *task_guard = Some(task).
PlayStore ==
    /\ apc.at = "store"
    /\ current_playback_task' = Some(calls)
    /\ apc' = Idle
    /\ UNCHANGED <<lock_vars, pcm_vars, ds_vars, buf_vars, progress_vars, playback_state, sink,
                   task, calls, superseded>>

\* The start task: stream_manager.create_stream_session(..).await yields
\* Ok((session, new_progress)) or Err.  A prewarmed session is returned
\* without the task ever being suspended.
TaskResume(n) ==
    /\ task[n] = "creating"
    /\ \E r \in {"session_ok", "session_err"} : task' = [task EXCEPT ![n] = r]
    /\ UNCHANGED <<lock_vars, pcm_vars, ds_vars, buf_vars, progress_vars, playback_state, sink,
                   current_playback_task, apc, calls, superseded>>

\* The start task: engine.play_source(source), which is sink.append(source).
TaskPlaySource(n) ==
    /\ task[n] = "session_ok"
    /\ sink' = Append(sink, n)
    /\ task' = [task EXCEPT ![n] = "appended"]
    /\ UNCHANGED <<lock_vars, pcm_vars, ds_vars, buf_vars, progress_vars, playback_state,
                   current_playback_task, apc, calls, superseded>>

\* The start task: *state_guard = PlaybackState::Playing(track_clone).
TaskSetPlaying(n) ==
    /\ task[n] = "appended"
    /\ playback_state' = Playing(n)
    /\ task' = [task EXCEPT ![n] = "done"]
    /\ UNCHANGED <<lock_vars, pcm_vars, ds_vars, buf_vars, progress_vars, sink,
                   current_playback_task, apc, calls, superseded>>

\* The start task: *state_guard = PlaybackState::Error(..) when no session
\* could be created.
TaskSetError(n) ==
    /\ task[n] = "session_err"
    /\ playback_state' = ErrorState
    /\ task' = [task EXCEPT ![n] = "done"]
    /\ UNCHANGED <<lock_vars, pcm_vars, ds_vars, buf_vars, progress_vars, sink,
                   current_playback_task, apc, calls, superseded>>

ControllerCommand ==
    \/ CallPlayTrack
    \/ CallStop
    \/ StopAbort
    \/ StopEngine
    \/ StopSetState
    \/ PlaySetBuffering
    \/ PlaySpawn
    \/ PlayStore

StartTask(n) ==
    \/ TaskResume(n)
    \/ TaskPlaySource(n)
    \/ TaskSetPlaying(n)
    \/ TaskSetError(n)

PlayNext ==
    \/ ControllerCommand
    \/ \E n \in 1..MaxCalls : StartTask(n)

Init == PcmInit /\ DsInit /\ BufInit /\ ProgressInit /\ PlayInit /\ LockInit

\* ----------------------------------------------------------------- session
\* One streaming session whose controller is not used (no seek, no stop).
\* The decode thread owns the decoder and, inside it, the
\* StreamingDataSource: the reader's calls are made by the decode thread,
\* from decoder.next(), and the source is dropped when run_decode_loop
\* returns or unwinds.

\* A step of run_decode_loop outside the decoder: no call on the source is
\* in progress.
SessionDecode ==
    /\ SessionStarted
    /\ rl.at = "idle"
    /\ DecodeThread

\* A step of the reader.  A call begins inside decoder.next(); the source
\* is dropped once the decode thread has left its loop.
SessionReader ==
    /\ rl.at = "idle" => (DecodeExited \/ (dpc = "drain" /\ cmd_q = <<>>))
    /\ ReaderLocking
    /\ rl.at = "idle" => (DecodeExited <=> rl'.at = "drop_send")

\* A panic in a call on the source unwinds run_decode_loop: sample_tx and
\* cmd_rx are dropped with the thread.
SessionUnwound ==
    /\ rl.from = "panic"
    /\ ~DecodeExited
    /\ dpc' = "exited"
    /\ UNCHANGED <<lock_vars, ds_vars, buf_vars, progress_vars, play_vars,
                   generation, seeking, cmd_q, sample_q, stop_called, rx_dropped,
                   active_generation, chunk, dec_pos, decode_error, decoder_seeks,
                   expect, consumer_vars>>

\* The consumer pulls samples, and is dropped.
SessionUser ==
    /\ SessionStarted
    /\ \/ ConsumerNext
       \/ ConsumerDrop

SessionNext ==
    \/ SessionDecode
    \/ SessionReader
    \/ SessionUnwound
    \/ WorkerLocking
    \/ SessionUser

SessionSpec == Init /\ [][SessionNext]_vars

\* ... under the scheduling std::thread gives the decode thread and the
\* fetch worker, and with every HTTP request returning.  Nothing is
\* assumed of the consumer.
SessionFairSpec ==
    SessionSpec /\ WF_vars(SessionDecode) /\ WF_vars(SessionReader)
                /\ WF_vars(SessionUnwound) /\ WF_vars(WorkerLocking)

\* The reader and the fetch worker with the buffer lock made explicit.
LockSpec == Init /\ [][LockNext]_vars

\* ... under the scheduling std::thread gives both threads, and with every
\* HTTP request returning.
LockFairSpec == LockSpec /\ WF_vars(ReaderLocking) /\ WF_vars(WorkerLocking)

\* The AudioController and its start tasks.
PlaySpec == Init /\ [][PlayNext]_vars

\* The window alone, under any sequence of calls of its methods.
BufSpec == Init /\ [][BufNext]_vars

\* The streaming reader and its fetch worker.
Spec == Init /\ [][DsNext]_vars

\* ... under a scheduler that lets a thread which can step do so.
FairSpec == Spec /\ WF_vars(ReaderStep) /\ WF_vars(Worker)

SeekPositions == {0, TrackLen - 1}

PcmNext ==
    \/ \E p \in SeekPositions : ControllerSeekBegin(p)
    \/ \E s \in seeking : ControllerSeekSend(s)
    \/ ControllerStop
    \/ DecodeThread
    \/ ConsumerNext
    \/ \E p \in SeekPositions : TrySeek(p)
    \/ ConsumerDrop

\* The decode pipeline: controller, decode thread and consumer.
PcmSpec == Init /\ [][PcmNext]_vars

ProgressNext == PcmNext \/ ResetBegin \/ ResetStore

\* The decode pipeline and a thread that resets the TrackProgress.
ProgressSpec == Init /\ [][ProgressNext]_vars

\* The same pipeline under the scheduling std::thread gives: the decode
\* thread, once it can take a step, eventually takes it.
DecodeFairSpec == PcmSpec /\ WF_vars(DecodeThread)

SeekSend == \E s \in seeking : ControllerSeekSend(s)

\* ... and with a consumer that keeps pulling, and seek calls that return.
PcmFairSpec ==
    PcmSpec /\ WF_vars(DecodeThread) /\ WF_vars(ConsumerNext) /\ WF_vars(SeekSend)

\* ------------------------------------------------------------- claims (pcm)

Live ==
    ret.kind \notin {"end", "disconnected"} /\ ~stop_called /\ ~rx_dropped /\ ~decode_error

\* A sample of a chunk tagged g, or None after Finished(g), was returned.
Served(g) == ret.kind \in {"chunk", "end"} /\ ret.tag = g

\* C6: with a consumer that keeps pulling, a seek issued before the consumer
\* returned None is eventually served: a sample of a chunk tagged with the
\* seek's generation, or None following Finished with that tag (unless a
\* later seek supersedes it, the session is stopped or dropped, or the
\* decoder fails).
C6_SeekEventuallyServed ==
    \A g \in 1..MaxGen :
        (generation = g /\ Live)
            ~> (Served(g) \/ generation # g \/ stop_called \/ rx_dropped \/ decode_error)

\* C7: a next() call that starts after stop() has returned delivers no
\* chunk sample (stop having advanced the generation, what was produced
\* before it is discarded).
C7_NothingDeliveredAfterStop == ~(ret.kind = "chunk" /\ ret.after_stop)

\* C8: after stop() the decode thread eventually leaves its loop, whatever
\* the consumer does.
C8_StopEndsDecodeThread == stop_called ~> DecodeExited

\* C18 as stated: whatever the decode thread is doing, a try_recv that finds
\* the channel empty with no Finished received for the current generation
\* makes next() return one silence sample 0.0.
C18_SilenceWhateverDecodeDoes ==
    [][(/\ cpc = "recv" /\ cpc' = "idle"
        /\ sample_q = <<>>
        /\ finished_generation # Some(current_generation))
       => (ret'.kind = "silence" /\ ret'.value = 0)]_vars

\* C18, amended: next() never waits on the sample channel (every step of a
\* running call can be taken at once), and while the decode thread has not
\* left its loop a try_recv that finds the channel empty with no Finished
\* received for the current generation makes next() return one silence
\* sample 0.0; once the thread has left (the channel is disconnected) the
\* call returns None instead.
C18_SilenceWhileDecodeRuns ==
    /\ [](cpc # "idle" => ENABLED ConsumerNext)
    /\ [][(/\ cpc = "recv" /\ cpc' = "idle"
           /\ sample_q = <<>>
           /\ finished_generation # Some(current_generation))
          => IF DecodeExited
             THEN ret'.kind = "disconnected"
             ELSE ret'.kind = "silence" /\ ret'.value = 0]_vars

\* C18: a call has returned silence while the decode thread holds a chunk it
\* has not sent yet.
C18_Witness ==
    /\ ret.kind = "silence" /\ ret.value = 0
    /\ cpc = "idle"
    /\ sample_q = <<>>
    /\ dpc = "send_samples"

\* The samples of the messages in a channel.
RECURSIVE QueuedSamples(_)
QueuedSamples(q) ==
    IF q = <<>> THEN 0 ELSE Len(Head(q).chunk) + QueuedSamples(Tail(q))

\* C19: the sample channel never holds more than SAMPLE_CHANNEL_CAPACITY
\* messages, each of at most PCM_CHUNK_SAMPLES samples; the decode thread
\* holds at most one further chunk and is blocked in send while the channel
\* is full, so the decoded and undelivered PCM never exceeds
\* SAMPLE_CHANNEL_CAPACITY + 1 chunks.
C19_BoundedBacklog ==
    /\ Len(sample_q) <= SAMPLE_CHANNEL_CAPACITY
    /\ \A i \in 1..Len(sample_q) : Len(sample_q[i].chunk) <= PCM_CHUNK_SAMPLES
    /\ Len(chunk) <= PCM_CHUNK_SAMPLES
    /\ QueuedSamples(sample_q) + Len(chunk)
          <= (SAMPLE_CHANNEL_CAPACITY + 1) * PCM_CHUNK_SAMPLES
    /\ (ChannelFull(sample_q) /\ dpc \in {"send_samples", "send_finished"} /\ ~rx_dropped)
          => ~ENABLED DecodeThread

\* C19: the consumer has never pulled, the channel is full of chunks and the
\* decode thread is blocked in send holding one more.
C19_Witness ==
    /\ ret.kind = "start" /\ cpc = "idle" /\ ~rx_dropped
    /\ Len(sample_q) = SAMPLE_CHANNEL_CAPACITY
    /\ \A i \in 1..Len(sample_q) : sample_q[i].type = "Samples"
    /\ dpc = "send_samples" /\ chunk # <<>>
    /\ ~ENABLED DecodeThread

\* C20: when next() has returned None for end of stream, every sample of
\* every chunk tagged with that call's generation that the decode thread
\* sent (all of them before its Finished, the last message it sends) has
\* been returned; and a call that follows under the same generation returns
\* None again.
C20_EndAfterWholeTail ==
    /\ [](ret.kind = "end" => owed[ret.tag] = 0)
    /\ [][(ret.kind = "end" /\ ret' # ret /\ ret'.cur = ret.cur)
          => ret'.kind \in {"end", "disconnected"}]_vars

\* C21: two seeks in a row to the same position reposition the decoder no
\* more often than one does: the decode thread never hands decoder.try_seek
\* the position it handed it on the Seek command before.
C21_NoDuplicateRestart ==
    \A i \in 1..(Len(decoder_seeks) - 1) : decoder_seeks[i] # decoder_seeks[i + 1]

\* C25: a chunk the decode thread sends under a tag g > 0 holds only samples
\* decoded after the decoder was repositioned by the Seek command carrying
\* g: the samples that follow that Seek's position, none from where the
\* decoder was before, also when decoder.try_seek failed.
C25_TagMatchesPosition ==
    (dpc = "send_samples" /\ active_generation > 0)
        => chunk = [i \in 1..Len(chunk) |-> Sample(expect - Len(chunk) + i - 1)]

\* No Seek command is on its way to the decode thread: every seek call has
\* sent its command and the thread, still in its loop, has drained them all.
SeeksDrained ==
    /\ seeking = {}
    /\ \A i \in 1..Len(cmd_q) : cmd_q[i].type # "Seek"
    /\ ~DecodeExited

\* C26: whatever the interleaving of seek calls made through clones of the
\* controller, the decode thread's active generation never decreases, and
\* once the thread has drained every issued Seek command its active
\* generation equals the shared generation counter.
C26_ActiveGenerationFollows ==
    /\ [][active_generation' >= active_generation]_vars
    /\ [](SeeksDrained => active_generation = generation)

\* The number of samples next() has returned from chunks tagged 0: those
\* decoded, less the chunk the thread still holds and those sent and not
\* yet returned.  (Without a seek every chunk is tagged 0.)
Delivered == dec_pos - Len(chunk) - owed[0]

\* C27: when no seek occurs, the samples next() returns from received
\* chunks are the decoder's samples in decode order, each exactly once (the
\* k-th one returned is the k-th one decoded); None comes only when all of
\* them were returned and the decode thread has left its loop, the end of
\* stream after Finished; and a silence sample is returned only by a pull
\* that found the channel empty.
C27_InOrderExactlyOnce ==
    /\ []((generation = 0 /\ ~rx_dropped) =>
            /\ ret.kind = "chunk" => ret.value = Sample(Delivered - 1)
            /\ ret.kind \in {"end", "disconnected"}
                  => (Delivered = dec_pos /\ DecodeExited)
            /\ ret.kind = "end" => finished_generation = Some(0))
    /\ [][(cpc = "recv" /\ cpc' = "idle" /\ ret'.kind = "silence")
             => sample_q = <<>>]_vars

\* C27: without a seek, a stop or an error the whole track was returned,
\* then None.
C27_Witness ==
    /\ generation = 0 /\ ~stop_called /\ ~decode_error /\ ~rx_dropped
    /\ ret.kind = "end"
    /\ Delivered = TrackLen

\* C11: a read or decode error during playback is surfaced to the consumer
\* as something else than the ordinary end of the track: once the decoder
\* has failed, next() does not report None as it does after Finished or on
\* a closed channel.
C11_ErrorNotSeenAsEnd == decode_error => ret.kind \notin {"end", "disconnected"}

\* ---------------------------------------------------------- claims (window)

\* C12: after any sequence of append, clear and discard_before calls the
\* window is one contiguous run: byte i of data is the byte appended for
\* offset start_pos + i and end_pos = start_pos + len(data); an accepted
\* append whose start is not the window's end_pos leaves exactly the new
\* bytes in the window, starting at start.
C12_SingleContiguousRun ==
    /\ win.data = AppendInput(win.start_pos, Len(win.data))
    /\ EndPos(win) = win.start_pos + Len(win.data)
    /\ (bop.op = "append" /\ bop.ok /\ ~bop.adjacent)
          => (win.data = AppendInput(bop.pos, bop.len) /\ win.start_pos = bop.pos)

\* A prefetch-sized append away from the end of a non-empty window was
\* accepted and has replaced the window.
C12_Witness ==
    /\ bop.op = "append" /\ bop.ok /\ ~bop.adjacent
    /\ bop.len = PREFETCH_SIZE /\ bop.pos > 0
    /\ win.start_pos = bop.pos /\ Len(win.data) = PREFETCH_SIZE

\* C13: after any sequence of appends of any size len(data) <= capacity,
\* start_pos never goes back, and no append fails: overflow is evicted from
\* the front.
C13_AppendKeepsCapacity ==
    /\ Len(win.data) <= BUFFER_SIZE
    /\ bop.op = "append" => (bop.kind = "ok" /\ ~bop.back)

\* C14: a read_at(pos, buf) that returns has copied min(len(buf),
\* available_from(pos)) bytes, which are the bytes appended for
\* [pos, pos + n), and none for a pos outside the window.
C14_ReadAtRoundTrip ==
    (bop.op = "read_at" /\ bop.kind = "ok")
        => bop.out = AppendInput(bop.pos, Min(bop.len, AvailableFrom(win, bop.pos)))

\* C15: an append of a non-empty slice (no longer than the capacity) with
\* start >= start_pos returns true and leaves end_pos = start + len(new),
\* the window rebased to start unless start was its end_pos; with
\* start < start_pos or an empty slice it returns false.
C15_AppendAccepts ==
    (bop.op = "append" /\ bop.len <= BUFFER_SIZE)
        => IF bop.len > 0 /\ ~bop.below
           THEN /\ bop.ok
                /\ EndPos(win) = bop.pos + bop.len
                /\ ~bop.adjacent => win.start_pos = bop.pos
           ELSE ~bop.ok

\* C16 as stated: once eof is true it remains true.
C16_EofStaysTrue == [][win.eof => win'.eof]_vars

\* C16, amended: an accepted append with start + len(new) >= total_bytes
\* leaves eof true; eof then stays true until the window is cleared or an
\* accepted append replaces it (start not at its end_pos); while eof is
\* true should_prefetch returns false for every pos.
C16_EofUntilWindowReplaced ==
    /\ []((bop.op = "append" /\ bop.ok /\ bop.pos + bop.len >= win.total_bytes) => win.eof)
    /\ [][(win.eof /\ ~win'.eof)
            => \/ bop'.op = "clear"
               \/ (bop'.op = "append" /\ bop'.ok /\ ~bop'.adjacent)]_vars
    /\ []((bop.op = "should_prefetch" /\ win.eof) => ~bop.ok)

\* should_prefetch said no because of eof alone: nothing is pending and
\* less than PREFETCH_TRIGGER bytes lie ahead of pos, the window having got
\* its eof from an append that ended exactly at total_bytes.
C16_Witness ==
    /\ bop.op = "should_prefetch" /\ ~bop.ok
    /\ win.eof /\ win.pending = None
    /\ AvailableFrom(win, bop.pos) < PREFETCH_TRIGGER
    /\ EndPos(win) = TotalBytes

\* ----------------------------------------------------- claims (data source)

\* The bytes of the resource at offsets [pos, pos + n).
ResourceBytes(pos, n) == [k \in 1..n |-> Byte(pos + k - 1)]

\* C2: with a server that returns exactly the requested range, a read at
\* position p that returns n > 0 has copied the resource's bytes at
\* [p, p + n) and left position at p + n; the window itself never holds a
\* byte at another offset than its own.
C2_ReadReturnsResourceBytes ==
    server_exact =>
        /\ (rpc = "idle" /\ rret.op = "read" /\ rret.kind = "Ok" /\ rret.n > 0)
              => (rret.out = ResourceBytes(rret.pos, rret.n) /\ position = rret.pos + rret.n)
        /\ buffer.data = ResourceBytes(buffer.start_pos, Len(buffer.data))

\* C3: a read into a non-empty buffer at a position below total_bytes
\* returns at least one byte or an error, never Ok(0).
C3_NoPrematureEof ==
    (rret.op = "read" /\ rret.pos < total_bytes)
        => (rret.kind = "Err" \/ (rret.kind = "Ok" /\ rret.n >= 1))

\* Fetch commands queued or being executed by the worker.
Outstanding ==
    Cardinality({i \in 1..Len(fetch_q) : fetch_q[i].type = "Fetch"})
        + (IF wpc \in {"http", "append"} THEN 1 ELSE 0)

\* C4: at most one fetch is outstanding at any time.
C4_OneFetchOutstanding == Outstanding <= 1

\* C5: an append of a result whose request generation is not the reader's
\* current generation leaves the window's data, start_pos and eof alone.
C5_StaleResultIgnored ==
    [][(wpc = "append" /\ wpc' # "append" /\ wcmd.generation # fetch_generation)
          => (/\ buffer'.data = buffer.data
              /\ buffer'.start_pos = buffer.start_pos
              /\ buffer'.eof = buffer.eof)]_vars

\* The reader thread is inside wait_for.
InWaitFor == rpc \in {"wait_check", "wait_recv", "wait_recheck"}

\* The steps of ensure and of wait_for (new's initial fill included).
EnsureSteps == {"ensure_contains", "ensure_bump", "ensure_clear", "ensure_fetch",
                "wait_check", "wait_recv", "wait_recheck"}

\* The reader thread is inside ensure (or new's initial fill).
InEnsure == rpc \in EnsureSteps

\* C17: after any sequence of read and seek calls, with SeekFrom::Start,
\* End or Current and any offset, 0 <= position <= total_bytes; a seek
\* stores the target clamped to [0, total_bytes] and returns it (or the
\* error of ensure), and a read never moves position past total_bytes.
C17_PositionWithinResource ==
    /\ 0 <= position /\ position <= total_bytes
    /\ (rpc \in {"idle", "panicked"} /\ rret.op = "seek" /\ call.op = "seek")
          => (/\ rret.kind \in {"Ok", "Err"}
              /\ position = call.want
              /\ rret.kind = "Ok" => rret.n = call.want)

\* C22: when new has returned Ok the window starts at offset 0 and at least
\* MIN_INITIAL_DATA bytes are readable from offset 0, or eof is set.
C22_InitialFill ==
    (rpc = "idle" /\ rret.op = "new" /\ rret.kind = "Ok")
        => (/\ session = "started"
            /\ buffer.start_pos = 0
            /\ AvailableFrom(buffer, 0) >= MIN_INITIAL_DATA \/ buffer.eof)

\* C22: new has returned Ok for a resource shorter than MIN_INITIAL_DATA,
\* on eof alone.
C22_Witness ==
    /\ rpc = "idle" /\ rret.op = "new" /\ rret.kind = "Ok"
    /\ buffer.eof
    /\ AvailableFrom(buffer, 0) = total_bytes
    /\ total_bytes < MIN_INITIAL_DATA


\* C23: a failed construction leaves nothing running.  If the probe fails
\* or reports no length, new returns the error with no fetch worker
\* spawned; if the initial fill fails, new returns the error, the worker is
\* sent Shutdown and eventually ends; in both cases the session has failed
\* for good: the decode thread is never spawned.
C23_FailedConstruction ==
    /\ [](rpc = "failed" => (wpc = "unspawned" /\ fetch_q = <<>>))
    /\ [](rpc \in {"failed", "dropped"}
            => (session = "failed" /\ rret.op = "new" /\ rret.kind = "Err"))
    /\ [][session = "failed" => session' = "failed"]_vars
    /\ (rpc = "dropped") ~> WorkerGone

\* C23: the initial fill failed, the source was dropped and the worker has
\* left its loop on Shutdown.
C23_Witness ==
    /\ rpc = "dropped" /\ session = "failed"
    /\ wpc = "exited"
    /\ fetch_q = <<>>

\* C9: every ensure / wait_for terminates, and by returning: it never
\* counts more than MAX_ATTEMPTS timeouts, it is not left by a panic, and
\* it returns Ok only with the bytes available or eof set, or with nothing
\* to fetch.
C9_EnsureTerminates ==
    /\ InEnsure ~> ~InEnsure
    /\ [](call.attempts <= MAX_ATTEMPTS)
    /\ [](rpc = "panicked" => call.at \notin EnsureSteps)
    /\ [][(InEnsure /\ call'.ensure = "ok" /\ call.ensure # "ok")
            => \/ WaitSatisfied(buffer', call.pos, call.min)
               \/ Contains(buffer, call.pos)
               \/ call.pos >= total_bytes]_vars

\* An ensure gave up after MAX_ATTEMPTS timeouts while its fetch was still
\* with the worker.
C9_Witness ==
    /\ call.op = "seek" /\ call.ensure = "err" /\ call.attempts = MAX_ATTEMPTS
    /\ wpc = "http"

\* C10: when ensure has exhausted its retries the read or seek that called
\* it returns an error, never Ok.
C10_EnsureErrorPropagates ==
    (rpc = "idle" /\ call.ensure = "err" /\ call.op \in {"read", "seek"})
        => (rret.op = call.op /\ rret.kind = "Err")

\* A read whose ensure timed out has returned.
C10_Witness ==
    /\ rpc = "idle" /\ call.op = "read" /\ call.ensure = "err" /\ rret.kind = "Err"

\* ensure has returned to the read or seek that called it.
EnsureReturned == call.op \in {"read", "seek"} /\ call.ensure \in {"ok", "err"}

\* The one Fetch ensure(pos) sends on a miss.
EnsureFetchCmd(pos, g) == FetchCmd(pos, Min(pos + PREFETCH_SIZE, total_bytes), g)

\* C24: an ensure(pos) that finds pos in the window returns Ok leaving the
\* reader generation and the window (data, start_pos, eof, pending) as
\* they are and sending no Fetch; one that does not find it has, when it
\* returns, incremented the generation by exactly 1 and sent exactly the
\* Fetch for [pos, min(pos + PREFETCH_SIZE, total_bytes)), none when
\* pos = total_bytes, and its clear left the window empty at start_pos = pos.
C24_EnsureFrame ==
    /\ []((EnsureReturned /\ call.hit = "hit")
            => (call.ensure = "ok" /\ fetch_generation = call.gen0 /\ call.sent = <<>>))
    /\ [][(rpc = "ensure_contains" /\ call'.hit = "hit")
            => (buffer' = buffer /\ fetch_q' = fetch_q)]_vars
    /\ []((EnsureReturned /\ call.hit = "miss")
            => /\ fetch_generation = call.gen0 + 1
               /\ call.sent = IF call.pos = total_bytes THEN <<>>
                               ELSE <<EnsureFetchCmd(call.pos, call.gen0 + 1)>>)
    /\ [][(rpc = "ensure_clear" /\ rpc' \notin {"ensure_clear", "panicked"})
            => (/\ buffer'.data = <<>>
                /\ buffer'.start_pos = call.pos
                /\ buffer'.pending = None
                /\ ~buffer'.eof)]_vars

\* A seek back to byte 0, after reads had moved the window off it, has
\* reset the window to start_pos = 0 with nothing cached and is about to
\* send its Fetch.
C24_Witness ==
    /\ rpc = "ensure_fetch" /\ call.op = "seek" /\ call.pos = 0 /\ call.hit = "miss"
    /\ buffer.start_pos = 0 /\ buffer.data = <<>>
    /\ fetch_generation = call.gen0 + 1

\* The Fetch commands issued and not yet completed: queued, or with the worker.
IssuedFetches ==
    {fetch_q[i] : i \in {j \in 1..Len(fetch_q) : fetch_q[j].type = "Fetch"}}
        \cup (IF wpc \in {"http", "append"} THEN {wcmd} ELSE {})

\* Every Fetch issued has start < end <= total_bytes, and its Range header
\* names the inclusive bytes start..end-1.
FetchRangesValid ==
    /\ \A c \in IssuedFetches : c.start < c.end /\ c.end <= total_bytes
    /\ wpc = "http" => RangeHeader(wcmd.start, wcmd.end)
                           = [first |-> wcmd.start, last |-> wcmd.end - 1]

\* trigger_prefetch decides to fetch.
PrefetchDecided == rpc = "prefetch_check" /\ rpc' = "prefetch_send"

\* trigger_prefetch sends the Fetch it decided on: [start, min(start +
\* PREFETCH_SIZE, total_bytes)).
PrefetchSent ==
    (rpc = "prefetch_send" /\ rpc' = "idle" /\ ~SendFails)
        => fetch_q' = Append(fetch_q, FetchCmd(call.start,
                                               Min(call.start + PREFETCH_SIZE, total_bytes),
                                               fetch_generation))

\* C30 as stated: every Fetch issued has start < end <= total_bytes with
\* the Range header naming start..end-1, and the background fetch issued
\* with the cursor at P and should_prefetch(P) true covers
\* [P, min(P + PREFETCH_SIZE, total_bytes)).
C30_PrefetchFromCursor ==
    /\ []FetchRangesValid
    /\ [][PrefetchDecided => (ShouldPrefetch(buffer, position) /\ call'.start = position)]_vars
    /\ [][PrefetchSent]_vars

\* C30, amended: every Fetch issued has start < end <= total_bytes with
\* the Range header naming start..end-1, and the background fetch issued
\* with the cursor at P and should_prefetch(P) true covers
\* [E, min(E + PREFETCH_SIZE, total_bytes)) for E the end_pos of the
\* window at that moment, not the cursor.
C30_PrefetchFromWindowEnd ==
    /\ []FetchRangesValid
    /\ [][PrefetchDecided => (/\ ShouldPrefetch(buffer, position)
                              /\ call'.start = EndPos(buffer))]_vars
    /\ [][PrefetchSent]_vars

\* A read has advanced the cursor to a position the window extends beyond,
\* and the prefetch it is about to send runs from the window's end to the
\* end of the resource.
C30_Witness ==
    /\ rpc = "prefetch_send"
    /\ call.start > position
    /\ call.start + call.size = total_bytes
    /\ call.size < PREFETCH_SIZE

\* The worker is between commands or has ended.
WorkerDone == wpc \in {"recv", "exited", "panicked"}

\* C28: for every Fetch the worker dequeues it sends exactly one completion,
\* whether the request succeeded, failed or came back stale: never a second
\* one, and none is owed once the worker is done with the command; a
\* failure clears the pending marker and leaves data, start_pos and eof.
C28_OneCompletionPerFetch ==
    /\ [](unnotified \in {0, 1})
    /\ [](WorkerDone => unnotified = 0)
    /\ [][(wpc = "http" /\ wpc' = "recv" /\ wres' = "failed")
            => (/\ buffer'.pending = None
                /\ buffer'.data = buffer.data
                /\ buffer'.start_pos = buffer.start_pos
                /\ buffer'.eof = buffer.eof)]_vars

\* fetch_range_blocking has just returned an error to the worker.
FetchFailedStep ==
    wpc = "http" /\ wpc' \in {"recv", "panicked"} /\ wres' \in {"failed", "panic"}

\* The worker has completed nothing since a request of its failed.
JustFailed == wres = "failed"

\* C29: a failed fetch leaves the worker in its loop, ready for the next
\* command; while that failure is the last thing the worker did, no step
\* of ensure panics, and an ensure at a position not in the window sends
\* a fresh Fetch for that position; and when, after a failure, the data
\* of the Fetch an ensure is waiting for is appended, the position the
\* ensure asked for is in the window.
C29_FailureDoesNotDisable ==
    /\ [][FetchFailedStep => (wpc' = "recv" /\ buffer'.pending = None)]_vars
    /\ [][(JustFailed /\ rpc \in EnsureSteps) => rpc' # "panicked"]_vars
    /\ [][(JustFailed /\ rpc = "ensure_fetch" /\ rpc' # rpc)
            => fetch_q' = Append(fetch_q, EnsureFetchCmd(call.pos, fetch_generation))]_vars
    /\ [][(failed_at # None /\ wpc = "append" /\ wpc' = "notify" /\ server_exact
              /\ InWaitFor /\ call.hit = "miss"
              /\ wcmd = EnsureFetchCmd(call.pos, fetch_generation))
            => Contains(buffer', call.pos)]_vars

\* The prefetch of [3, 6) failed; the read that then found position 3
\* outside the window fetched it afresh and returned the resource's bytes.
C29_Witness ==
    /\ failed_at = Some(PREFETCH_SIZE)
    /\ rpc = "idle" /\ rret.op = "read" /\ rret.kind = "Ok" /\ rret.pos = PREFETCH_SIZE
    /\ call.hit = "miss" /\ call.ensure = "ok"
    /\ rret.n > 0 /\ rret.out = ResourceBytes(rret.pos, rret.n)

\* The worker is idle: in rx_cmd.recv() with no command queued.
WorkerIdle == wpc = "recv" /\ fetch_q = <<>>

\* C39: whenever the fetch worker is idle the pending marker is None: a
\* completed fetch (success, failure, empty response or stale result)
\* leaves the marker cleared.
C39_IdleMeansNoPending == WorkerIdle => buffer.pending = None

\* trigger_prefetch has looked at the window and returns or goes on to send.
PrefetchLooked == rpc = "prefetch_check" /\ rpc' \in {"prefetch_send", "idle"}

\* C31: after a read that returned n > 0, trigger_prefetch issues a Fetch
\* if and only if the window is not at eof, no fetch is marked pending,
\* fewer than PREFETCH_TRIGGER bytes are buffered from the new cursor and
\* end_pos < total_bytes; having handed the Fetch to try_send the read
\* returns Ok(n) at once; and a read that finds its position in the window
\* goes straight to read_at and is never inside wait_for.
C31_PrefetchIffNeeded ==
    /\ [][PrefetchLooked
            => /\ Len(call.out) > 0
               /\ rpc' = "prefetch_send"
                    <=> (/\ ~buffer.eof
                         /\ buffer.pending = None
                         /\ AvailableFrom(buffer, position) < PREFETCH_TRIGGER
                         /\ EndPos(buffer) < total_bytes)]_vars
    /\ [][(rpc = "prefetch_send" /\ rpc' # rpc)
            => (rpc' = "idle" /\ rret' = ReadResult(call, call.out))]_vars
    /\ [][(rpc = "read_contains" /\ rpc' # rpc /\ Contains(buffer, call.pos) /\ ~poisoned)
            => rpc' = "read_at"]_vars
    /\ []((call.op = "read" /\ call.hit = "none") => ~InWaitFor)

\* A read has returned its bytes while the prefetch it issued is still in
\* the command queue.
C31_Witness ==
    /\ rpc = "idle" /\ rret.op = "read" /\ rret.kind = "Ok" /\ rret.n > 0
    /\ call.hit = "none" /\ call.size > 0
    /\ fetch_q # <<>>
    /\ fetch_q[Len(fetch_q)] = FetchCmd(call.start, call.start + call.size, fetch_generation)

\* What discard_before(pos) does to a window b: it removes bytes from the
\* front only, none at or beyond pos, leaves end_pos, eof and pending, and
\* leaves everything when pos <= start_pos.
DiscardsOnlyBefore(b, pos) ==
    LET b2 == DiscardBefore(b, pos)
        d  == b2.start_pos - b.start_pos
    IN  /\ d >= 0
        /\ b2.start_pos <= Max(pos, b.start_pos)
        /\ b2.data = SubSeq(b.data, d + 1, Len(b.data))
        /\ EndPos(b2) = EndPos(b)
        /\ b2.eof = b.eof
        /\ b2.pending = b.pending
        /\ pos <= b.start_pos => b2 = b

\* C32: when a read has returned n > 0 the window holds no byte before the
\* new cursor (start_pos >= position), whatever the worker appends
\* meanwhile; a seek that follows to an offset below the cursor misses the
\* window and resets it; and discard_before, on any window the reader and
\* the worker produce and for any pos, removes only bytes before pos,
\* leaves end_pos, eof and pending and is a no-op for pos <= start_pos.
C32_WindowTrailsCursor ==
    /\ []((rpc = "idle" /\ ReadGotBytes) => buffer.start_pos >= position)
    /\ []((call.op = "seek" /\ call.below /\ call.hit # "none") => call.hit = "miss")
    /\ []((call.op = "seek" /\ call.below /\ EnsureReturned)
            => fetch_generation = call.gen0 + 1)
    /\ [](\A pos \in 0..(total_bytes + 1) : DiscardsOnlyBefore(buffer, pos))

\* After reads up to offset 2 a seek back to 0 has missed the window,
\* which had moved on, and reset it.
C32_Witness ==
    /\ call.op = "seek" /\ call.below /\ call.pos = 0 /\ call.hit = "miss"
    /\ rpc = "idle" /\ rret.op = "seek" /\ rret.kind = "Ok"
    /\ buffer.start_pos = 0

\* Seek commands in the channel carry pairwise different generations, none
\* above the shared counter, and none that a seek call still has to send.
SeekTagsDistinct ==
    /\ \A i, j \in 1..Len(cmd_q) :
          (i # j /\ cmd_q[i].type = "Seek" /\ cmd_q[j].type = "Seek")
              => cmd_q[i].generation # cmd_q[j].generation
    /\ \A i \in 1..Len(cmd_q) :
          cmd_q[i].type = "Seek"
              => /\ cmd_q[i].generation \in 1..generation
                 /\ \A s \in seeking : s.generation # cmd_q[i].generation
    /\ \A s, t \in seeking : s.generation = t.generation => s = t
    /\ \A s \in seeking : s.generation \in 1..generation

\* A StreamController::seek (or try_seek) call does its fetch_add.
SeekBegins == \E s \in seeking' : s \notin seeking

\* A seek call does its send.
SeekSends == \E s \in seeking : s \notin seeking'

StopDequeued ==
    /\ dpc = "drain" /\ cmd_q # <<>> /\ Head(cmd_q).type = "Stop"
    /\ cmd_q' = Tail(cmd_q)

\* The thread has left the loop, and neither a failed send (the receiver is
\* alive) nor the end of the stream (samples are left, no decode error)
\* made it leave: it left on a Stop command.
StoppedByCommand ==
    /\ DecodeExited
    /\ ~rx_dropped /\ ~decode_error /\ dec_pos < TrackLen

\* C35: once the decode thread has dequeued a Stop command it puts no
\* further Samples or Finished message into the sample channel and handles
\* no command queued behind the Stop: the step that dequeues Stop ends the
\* thread without a send, and from then on the sample channel only shrinks,
\* the command channel is not read, and decoder, generation tag and seek
\* history stay as they were.
C35_StopEndsThread ==
    /\ [][StopDequeued => (/\ DecodeExited'
                           /\ sample_q' = sample_q
                           /\ owed' = owed
                           /\ decoder_seeks' = decoder_seeks)]_vars
    /\ [][DecodeExited
            => (/\ DecodeExited'
                /\ \E k \in 0..Len(sample_q) :
                      sample_q' = SubSeq(sample_q, k + 1, Len(sample_q))
                /\ \A g \in 0..MaxGen : owed'[g] <= owed[g]
                /\ cmd_q' = cmd_q
                /\ decoder_seeks' = decoder_seeks
                /\ active_generation' = active_generation
                /\ dec_pos' = dec_pos)]_vars

\* The thread has left on a Stop while a Seek command was queued behind it:
\* the Seek is still in the channel, unhandled.
C35_Witness ==
    /\ StoppedByCommand
    /\ stop_called
    /\ cmd_q # <<>> /\ Head(cmd_q).type = "Seek"
    /\ decoder_seeks = <<>>

\* The calls whose session source is queued in the sink.
InSink == {sink[i] : i \in 1..Len(sink)}

\* C37: once a later play_track or stop() has replaced a play_track call,
\* that call's session source is not in the sink and the playback state is
\* not Playing for it, whatever the interleaving of its start task with the
\* replacing call; the sink never holds more than one session source.
C37_SupersededNeverStarts ==
    /\ \A n \in superseded : n \notin InSink /\ playback_state # Playing(n)
    /\ Len(sink) <= 1

\* The decode thread stores a seek position into the TrackProgress.
PositionStored == dpc = "set_position" /\ dpc' = "drain"

\* C38: the decode thread stores a seek position into the TrackProgress
\* only while the generation of the TrackProgress equals the one the
\* session was created under: once a reset() has advanced the generation
\* and returned, no Seek handled by the session overwrites the position.
C38_NoStoreAfterReset ==
    [][(PositionStored /\ ~resetting) => track_generation = progress_generation]_vars

\* A thread has called lock() and does not hold the guard yet.
ReaderWantsLock == rl.at \in LockSteps /\ buffer_lock # "reader"
WorkerWantsLock == wl \in WorkerLockSteps /\ buffer_lock # "worker"

\* A thread waits without a time limit for something only the other thread
\* can provide: the lock the other holds, a command, the other's end.
ReaderWaits ==
    \/ ReaderWantsLock /\ buffer_lock = "worker"
    \/ rl.at = "drop_join" /\ ~WorkerEnded
WorkerWaits ==
    \/ WorkerWantsLock /\ buffer_lock = "reader"
    \/ wl = "recv" /\ lk_cmds = <<>>

\* C33: the buffer lock is not held while an HTTP request is in progress
\* nor while its holder waits on the command channel, the completion
\* channel or the join; the two threads never wait on each other; and
\* every lock() call returns: the caller gets the guard, or the error of a
\* poisoned lock.
C33_NoDeadlock ==
    /\ [](wl \in {"http", "recv", "notify"} => buffer_lock # "worker")
    /\ [](rl.at \notin LockSteps => buffer_lock # "reader")
    /\ [](~(ReaderWaits /\ WorkerWaits))
    /\ ReaderWantsLock ~> (buffer_lock = "reader" \/ ReaderPanicked)
    /\ WorkerWantsLock ~> (buffer_lock = "worker" \/ wl = "panicked")

\* The reader has called lock() in wait_for while the worker holds the
\* guard for its append.
C33_Witness ==
    /\ rl.at = "wait_recheck" /\ buffer_lock = "worker" /\ wl = "append"

\* The decode thread's send finds the receiver gone.
SendFailed ==
    /\ rx_dropped
    /\ dpc \in {"send_samples", "send_finished"}
    /\ dpc' # dpc

\* C34: once the consumer is dropped, the decode thread's next send fails
\* and the thread leaves its loop with nothing sent and no panic; the
\* source is dropped only when the decode thread has ended, its drop sends
\* Shutdown to a running worker and returns from the join only when the
\* worker has ended; and after the consumer is dropped the decode thread
\* and the fetch worker both end.
C34_ThreadsEndAfterConsumer ==
    /\ [][SendFailed => (/\ DecodeExited'
                         /\ sample_q' = sample_q
                         /\ decode_error' = decode_error
                         /\ rl' = rl)]_vars
    /\ [](rl.at \in {"drop_send", "drop_join", "dropped"}
            => (DecodeExited \/ ReaderPanicked \/ ~SessionStarted))
    /\ [][(rl.at = "drop_send" /\ rl'.at = "drop_join" /\ ~WorkerEnded)
            => lk_cmds' = Append(lk_cmds, "Shutdown")]_vars
    /\ [](rl.at = "dropped" => WorkerEnded)
    /\ rx_dropped ~> (DecodeExited /\ WorkerEnded /\ rl.at = "dropped")

\* The consumer was dropped while samples were left to decode: the decode
\* thread has ended on a failed send, the source was dropped, the worker
\* took the Shutdown and the join has returned.
C34_Witness ==
    /\ rx_dropped
    /\ DecodeExited /\ ~decode_error /\ dec_pos < TrackLen
    /\ rl = [at |-> "dropped", from |-> "drop", attempts |-> 0]
    /\ wl = "exited"

====
